---- MODULE Spec2Model ----
(***************************************************************************)
(* A model of the configstore Store: the provider registry, the watcher    *)
(* fan-out, the file loaders with their polling refresh loop and the       *)
(* declarative start-up (InitFromEnvironment).                             *)
(*                                                                         *)
(* Every goroutine is a process with a call stack of frames.  A frame is a *)
(* record holding the called function (op), the position in it (pc) and    *)
(* its arguments and locals.  A step of the model is one step of the top   *)
(* frame of one process.  Strings the code parses or formats are sequences *)
(* of one-character strings.                                               *)
(***************************************************************************)
EXTENDS Integers, Sequences, FiniteSets, TLC

\* ------------------------------------------------------------------------
\* Bounds of the model
\* ------------------------------------------------------------------------
MaxWatchers == 2
MaxClock == 2
MaxInMems == 1
MaxLoaded == 2
MaxEnvProviders == 1

\* ------------------------------------------------------------------------
\* The universe: stores, processes, names
\* ------------------------------------------------------------------------
DefaultStore == "default"

\* The sources hold two definitions of Store: the one of configstore.go, with
\* a package-level factory registry, and a second one whose factory registry
\* and pFactMut are fields of the Store.  For the default store the two
\* registries are the same object.
BuildGlobal == "configstore.go"
BuildPerStore == "second definition"
Builds == {BuildGlobal, BuildPerStore}
Stores == {DefaultStore, "s1"}
Threads == {"t1", "t2"}
\* The goroutines that file() starts for its refresh loop.
Goroutines == {"g1"}
Procs == Threads \cup Goroutines
NoProc == "none"

ProviderNames == {<<"a">>}
UserProviders == {[kind |-> "func", id |-> "p1"], [kind |-> "func", id |-> "p2"]}

EmptyMap == [x \in {} |-> x]

\* Strings of the program, as sequences of characters.
StrFile == <<"f", "i", "l", "e">>
StrFileList == <<"f", "i", "l", "e", "l", "i", "s", "t">>
StrFileTree == <<"f", "i", "l", "e", "t", "r", "e", "e">>

\* strings.Split(s, sep) for a one-character separator.
RECURSIVE Split(_, _)
Split(s, sep) ==
    IF \A i \in DOMAIN s : s[i] # sep
    THEN <<s>>
    ELSE LET i == CHOOSE k \in DOMAIN s :
                      s[k] = sep /\ \A j \in 1..(k - 1) : s[j] # sep
         IN  <<SubSeq(s, 1, i - 1)>> \o Split(SubSeq(s, i + 1, Len(s)), sep)

\* strings.SplitN(s, sep, 2): cut at the first separator only.
SplitN2(s, sep) ==
    IF \A i \in DOMAIN s : s[i] # sep
    THEN <<s>>
    ELSE LET i == CHOOSE k \in DOMAIN s :
                      s[k] = sep /\ \A j \in 1..(k - 1) : s[j] # sep
         IN  <<SubSeq(s, 1, i - 1), SubSeq(s, i + 1, Len(s))>>

\* strings.TrimSpace
RECURSIVE TrimSpace(_)
TrimSpace(s) ==
    IF s = <<>> THEN s
    ELSE IF Head(s) = " " THEN TrimSpace(Tail(s))
    ELSE IF s[Len(s)] = " " THEN TrimSpace(SubSeq(s, 1, Len(s) - 1))
    ELSE s

\* filepath.Join(dir, name): the elements joined by one separator.
RECURSIVE Join(_, _)
Join(dir, name) ==
    IF dir # <<>> /\ dir[Len(dir)] = "/" THEN Join(SubSeq(dir, 1, Len(dir) - 1), name)
    ELSE IF dir = <<>> THEN name
    ELSE dir \o <<"/">> \o name

\* unicode.IsUpper, over the letters file names of the model use.
IsUpper(c) == c \in {"A", "B", "C", "D", "E", "F"}

\* strings.HasPrefix, strings.TrimPrefix
HasPrefix(s, prefix) ==
    Len(s) >= Len(prefix) /\ SubSeq(s, 1, Len(prefix)) = prefix
TrimPrefix(s, prefix) ==
    IF HasPrefix(s, prefix) THEN SubSeq(s, Len(prefix) + 1, Len(s)) ELSE s

\* strings.Replace(s, old, new, -1) for a one-character old.
RECURSIVE Replace(_, _, _)
Replace(s, old, new) ==
    IF s = <<>> THEN <<>>
    ELSE (IF Head(s) = old THEN new ELSE <<Head(s)>>) \o Replace(Tail(s), old, new)

\* strings.ToLower, over the letters variable names of the model use.
LowerOf == ("A" :> "a") @@ ("B" :> "b") @@ ("X" :> "x") @@ ("Y" :> "y")
ToLower(s) == [i \in DOMAIN s |-> IF s[i] \in DOMAIN LowerOf THEN LowerOf[s[i]] ELSE s[i]]

\* ------------------------------------------------------------------------
\* Files
\* ------------------------------------------------------------------------
\* The file the refresh loop is pointed at.
WatchedFile == <<"f">>
GoodContents == {"v1", "v2"}
BadContent == "garbage"

NoFile == [kind |-> "none", readable |-> FALSE, content |-> "", mtime |-> 0,
           healthy |-> FALSE, entries |-> <<>>]
RegularFile(content, mtime) ==
    [kind |-> "file", readable |-> TRUE, content |-> content, mtime |-> mtime,
     healthy |-> content \in GoodContents, entries |-> <<>>]

\* healthy is history: the file has been present, readable and decodable
\* ever since it was last written.
Directory(entries, readable) ==
    [kind |-> "dir", readable |-> readable, content |-> "", mtime |-> 0,
     healthy |-> FALSE, entries |-> entries]

\* The filesystem at start-up: the watched file; a file that does not
\* decode; a directory d of two files and a sub-directory of two files; an
\* unreadable directory u; a directory n that holds a file and a
\* sub-directory, which holds a file and a directory.  No path "m" exists.
InitialFs ==
    (WatchedFile :> RegularFile("v1", 0))
    @@ (<<"b">> :> RegularFile(BadContent, 0))
    @@ (<<"d">> :> Directory(<<<<"A">>, <<"a">>, <<"s">>>>, TRUE))
    @@ (<<"d", "/", "A">> :> RegularFile("v1", 0))
    @@ (<<"d", "/", "a">> :> RegularFile("v2", 0))
    @@ (<<"d", "/", "s">> :> Directory(<<<<"B">>, <<"b">>>>, TRUE))
    @@ (<<"d", "/", "s", "/", "B">> :> RegularFile("v1", 0))
    @@ (<<"d", "/", "s", "/", "b">> :> RegularFile("v2", 0))
    @@ (<<"u">> :> Directory(<<>>, FALSE))
    @@ (<<"n">> :> Directory(<<<<"A">>, <<"s">>>>, TRUE))
    @@ (<<"n", "/", "A">> :> RegularFile("v1", 0))
    @@ (<<"n", "/", "s">> :> Directory(<<<<"a">>, <<"t">>>>, TRUE))
    @@ (<<"n", "/", "s", "/", "a">> :> RegularFile("v2", 0))
    @@ (<<"n", "/", "s", "/", "t">> :> Directory(<<>>, TRUE))

NewItem(key, value, priority) == [key |-> key, value |-> value, priority |-> priority]

\* yaml.Unmarshal(b, &vals): the decoder is an external capability; the
\* contents it accepts decode to one item carrying the content.
Unmarshal(b) ==
    IF b \in GoodContents
    THEN [err |-> "nil", vals |-> <<NewItem("k", b, 0)>>]
    ELSE [err |-> "decode", vals |-> <<>>]

\* ------------------------------------------------------------------------
\* Environment variables
\* ------------------------------------------------------------------------
\* Two variables that carry the prefix "A" and one that does not.
VarAXY == <<"A", "_", "X", "_", "Y">>
VarAB == <<"A", "_", "B">>
VarOther == <<"B", "_", "X">>
EnvNames == {VarAXY, VarAB, VarOther}
EnvValueSet == {<<"1">>, <<"2", "=", "3">>}

\* The environment the process starts with.
InitialEnv == <<[name |-> VarAXY, value |-> <<"1">>]>>

\* init(): the three built-in factories.
BuiltinFactories ==
    (StrFile :> "File") @@ (StrFileList :> "FileList") @@ (StrFileTree :> "FileTree")

VARIABLES
    providers,              \* Store.providers: per store, a map name -> Provider
    allowProviderOverride,  \* Store.allowProviderOverride
    watchers,               \* Store.watchers: per store, a sequence of channels
    chans,                  \* the channels made so far: chans[c] = [cap, len]
    held,                   \* the channels a Watch call has returned to a consumer
    pMut,                   \* Store.pMut: the process holding it, or NoProc
    watchersMut,            \* Store.watchersMut
    pFactMut,               \* the package-level pFactMut
    providerFactories,      \* the package-level map factory name -> factory
    inmems,                 \* the InMemoryProvider objects made so far: [items, mut]
    fs,                     \* the filesystem: path -> file or directory
    now,                    \* the clock
    environ,                \* the value of CONFIGURATION_FROM ("" when unset)
    osEnv,                  \* the other environment variables, in os.Environ() order
    envProvs,               \* the EnvVariableProvider objects made so far
    build,                  \* which of the two definitions of Store is compiled
    sends,                  \* history: per channel, sends tried since its last read
                            \* (0, 1, or 2 for two or more)
    stack,                  \* per process, its call stack (top frame first)
    panicking,              \* per process, whether a panic is unwinding its stack
    result                  \* history: per process, the last call of it that a panic ended

storeVars == <<providers, allowProviderOverride>>
watchVars == <<watchers, chans, held, sends>>
lockVars == <<pMut, watchersMut, pFactMut>>
notPMut == <<watchersMut, pFactMut>>
notWMut == <<pMut, pFactMut>>
notFMut == <<pMut, watchersMut>>
procVars == <<stack, panicking, result>>
fsVars == <<fs, now>>
evVars == <<osEnv, envProvs>>
envVars == <<providerFactories, inmems, fsVars, environ, evVars, build>>
notFact == <<inmems, fsVars, environ, evVars, build>>
notInmems == <<providerFactories, fsVars, environ, evVars, build>>
notFs == <<providerFactories, inmems, environ, evVars, build>>
notEnviron == <<providerFactories, inmems, fsVars, evVars, build>>
notEv == <<providerFactories, fsVars, environ, build>>

vars == <<storeVars, watchVars, lockVars, procVars, envVars>>

\* ------------------------------------------------------------------------
\* Frames
\* ------------------------------------------------------------------------
Top(p) == Head(stack[p])
Idle(p) == stack[p] = <<>>
At(p, op, pc) ==
    /\ stack[p] # <<>>
    /\ ~panicking[p]
    /\ Top(p).op = op
    /\ Top(p).pc = pc
SetTop(p, f) == [stack EXCEPT ![p] = <<f>> \o Tail(@)]
Goto(p, pc) == SetTop(p, [Top(p) EXCEPT !.pc = pc])
\* A top-level call: the process starts executing frame f.
Enter(p, f) == [stack EXCEPT ![p] = <<f>>]
\* A nested call: the caller resumes at pc once the callee f has returned.
Call(p, pc, f) == [stack EXCEPT ![p] = <<f, [Top(p) EXCEPT !.pc = pc]>> \o Tail(@)]

NoResult == [s |-> "none", out |-> "none"]

PMutOf(s) == [lock |-> "pMut", s |-> s]
PFactMut == [lock |-> "pFactMut", s |-> "global"]
InMemMut(k) == [lock |-> "inmem.mut", s |-> k]

\* ioutil.ReadFile
ReadFile(path) ==
    IF path \in DOMAIN fs /\ fs[path].kind = "file" /\ fs[path].readable
    THEN [err |-> "nil", b |-> fs[path].content]
    ELSE [err |-> "read", b |-> ""]

\* readFile(filename, nil)
readFile(filename) ==
    LET r == ReadFile(filename) IN
    IF r.err # "nil" THEN [err |-> r.err, vals |-> <<>>] ELSE Unmarshal(r.b)

\* os.Stat
Stat(path) ==
    IF path \in DOMAIN fs /\ fs[path].kind # "none"
    THEN [err |-> "nil", ModTime |-> fs[path].mtime]
    ELSE [err |-> "stat", ModTime |-> 0]

\* ioutil.ReadDir: the entries of a directory, sorted by name.
ReadDir(path) ==
    IF path \in DOMAIN fs /\ fs[path].kind = "dir" /\ fs[path].readable
    THEN [err |-> "nil",
          files |-> [i \in DOMAIN fs[path].entries |->
                       LET n == fs[path].entries[i] IN
                       [Name |-> n,
                        IsDir |-> Join(path, n) \in DOMAIN fs
                                  /\ fs[Join(path, n)].kind = "dir"]]]
    ELSE [err |-> "readdir", files |-> <<>>]

\* A readItem that gives every item the lower priority.
readItemFlat(path, basename, itemKey) ==
    LET r == ReadFile(path) IN
    IF r.err # "nil"
    THEN [err |-> r.err, it |-> NewItem(<<>>, "", 0)]
    ELSE [err |-> "nil", it |-> NewItem(itemKey, r.b, 5)]

\* readItem(path, basename, itemKey)
readItem(path, basename, itemKey) ==
    LET r == ReadFile(path) IN
    IF r.err # "nil"
    THEN [err |-> r.err, it |-> NewItem(<<>>, "", 0)]
    ELSE [err |-> "nil",
          it |-> NewItem(itemKey, r.b,
                         IF basename # <<>> /\ IsUpper(Head(basename)) THEN 10 ELSE 5)]

\* The loop of browseDir over files[i..].
RECURSIVE browseDirLoop(_, _, _, _, _)
browseDirLoop(items, path, basename, files, i) ==
    IF i > Len(files) THEN [items |-> items, err |-> "nil"]
    ELSE IF files[i].IsDir THEN [items |-> items, err |-> "nested"]
    ELSE LET r == readItem(Join(path, files[i].Name), files[i].Name, basename) IN
         IF r.err # "nil" THEN [items |-> items, err |-> r.err]
         ELSE browseDirLoop(Append(items, r.it), path, basename, files, i + 1)

\* browseDir(items, path, basename)
browseDir(items, path, basename) ==
    LET d == ReadDir(path) IN
    IF d.err # "nil" THEN [items |-> items, err |-> d.err]
    ELSE browseDirLoop(items, path, basename, d.files, 1)

\* The loop of FileTree over files[i..]: the items read, or the first error.
RECURSIVE FileTreeLoop(_, _, _, _)
FileTreeLoop(items, dirname, files, i) ==
    IF i > Len(files) THEN [items |-> items, err |-> "nil"]
    ELSE LET filename == Join(dirname, files[i].Name) IN
         IF files[i].IsDir
         THEN LET r == browseDir(items, filename, files[i].Name) IN
              IF r.err # "nil" THEN r
              ELSE FileTreeLoop(r.items, dirname, files, i + 1)
         ELSE LET r == readItem(filename, files[i].Name, files[i].Name) IN
              IF r.err # "nil" THEN [items |-> items, err |-> r.err]
              ELSE FileTreeLoop(Append(items, r.it), dirname, files, i + 1)

\* Providers: what RegisterProvider stores, and what calling one returns.
ErrorProviderFunc(err) == [kind |-> "error", err |-> err]
InMemItems(k) == [kind |-> "inmem", id |-> k]
Produce(f) ==
    IF f.kind = "error" THEN [items |-> <<>>, err |-> f.err]
    ELSE IF f.kind = "inmem" THEN [items |-> inmems[f.id].items, err |-> "nil"]
    ELSE [items |-> <<f.id>>, err |-> "nil"]

\* The state after init(): _store = New(), and a second Store made by New().
\* New() returns s.Clear().
InitState ==
    /\ providers = [s \in Stores |-> EmptyMap]
    /\ allowProviderOverride = [s \in Stores |-> FALSE]
    /\ watchers = [s \in Stores |-> <<>>]
    /\ chans = <<>>
    /\ held = {}
    /\ pMut = [s \in Stores |-> NoProc]
    /\ watchersMut = [s \in Stores |-> NoProc]
    /\ pFactMut = NoProc
    /\ providerFactories = BuiltinFactories
    /\ sends = <<>>
    /\ inmems = <<>>
    /\ fs = InitialFs
    /\ now = 0
    /\ environ = <<>>
    /\ osEnv = InitialEnv
    /\ envProvs = <<>>
    /\ stack = [p \in Procs |-> <<>>]
    /\ panicking = [p \in Procs |-> FALSE]
    /\ result = [p \in Procs |-> NoResult]

\* The program built from src/configstore.go.
Init == InitState /\ build = BuildGlobal

\* The program built from either definition of Store.
InitEitherBuild == InitState /\ build \in Builds

\* ------------------------------------------------------------------------
\* Returning and unwinding
\* ------------------------------------------------------------------------
\* The end of a function, by return or by a panic passing through it: its
\* deferred unlocks run and its frame is popped.  A panic that leaves the
\* bottom frame is recovered by the caller of the API (as the tests do).
\* The caller's frames once callee has ended: inmem := InMemory(name) stores
\* the pointer that InMemory returns.
Resume(callee, rest, panic) ==
    IF rest # <<>> /\ callee.op = "InMemory" /\ ~panic
    THEN <<[Head(rest) EXCEPT !.inmem = callee.inmem]>> \o Tail(rest)
    ELSE rest

Deferred(p, l) ==
    \E i \in DOMAIN Top(p).defers :
        Top(p).defers[i].lock = l.lock /\ Top(p).defers[i].s = l.s

Return(p) ==
    /\ stack[p] # <<>>
    /\ panicking[p] \/ Top(p).pc = "ret"
    /\ pMut' = [s \in Stores |-> IF Deferred(p, PMutOf(s)) THEN NoProc ELSE pMut[s]]
    /\ pFactMut' = IF Deferred(p, PFactMut) THEN NoProc ELSE pFactMut
    /\ stack' = [stack EXCEPT ![p] = Resume(Top(p), Tail(@), panicking[p])]
    /\ IF Len(stack[p]) = 1
       THEN /\ result' = [result EXCEPT ![p] =
                            IF panicking[p] THEN [s |-> Top(p).s, out |-> "panic"] ELSE @]
            /\ panicking' = [panicking EXCEPT ![p] = FALSE]
       ELSE UNCHANGED <<result, panicking>>
    /\ inmems' = [k \in DOMAIN inmems |->
                    IF Deferred(p, InMemMut(k)) THEN [inmems[k] EXCEPT !.mut = NoProc]
                    ELSE inmems[k]]
    /\ held' = IF Top(p).op = "Watch" /\ ~panicking[p]
               THEN held \cup {Top(p).newCh} ELSE held
    /\ UNCHANGED <<storeVars, watchers, chans, sends, watchersMut, notInmems>>

\* ------------------------------------------------------------------------
\* Store.RegisterProvider
\* ------------------------------------------------------------------------
RegisterProviderFrame(s, name, f) ==
    [op |-> "RegisterProvider", pc |-> "lock", s |-> s, name |-> name, f |-> f,
     defers |-> <<>>, ok |-> FALSE]

CallRegisterProvider(p, s, name, f) ==
    /\ Idle(p)
    /\ stack' = Enter(p, RegisterProviderFrame(s, name, f))
    /\ UNCHANGED <<storeVars, watchVars, lockVars, panicking, result, envVars>>

\* s.pMut.Lock(); defer s.pMut.Unlock()
RegisterProviderLock(p) ==
    /\ At(p, "RegisterProvider", "lock")
    /\ pMut[Top(p).s] = NoProc
    /\ pMut' = [pMut EXCEPT ![Top(p).s] = p]
    /\ stack' = SetTop(p, [Top(p) EXCEPT !.pc = "body",
                                         !.defers = <<PMutOf(Top(p).s)>>])
    /\ UNCHANGED <<storeVars, watchVars, notPMut, panicking, result, envVars>>

\* A registration that forgets the override test and always stores f.
RegisterProviderBodyNoCheck(p) ==
    /\ At(p, "RegisterProvider", "body")
    /\ LET fr == Top(p) IN
       /\ providers' = [providers EXCEPT
                          ![fr.s] = (fr.name :> fr.f) @@ providers[fr.s]]
       /\ stack' = SetTop(p, [fr EXCEPT !.pc = "ret",
                                        !.ok = fr.name \in DOMAIN providers[fr.s]])
    /\ UNCHANGED <<allowProviderOverride, watchVars, lockVars, panicking, result, envVars>>

\* _, ok := s.providers[name]; if ok && !override { panic }; s.providers[name] = f
RegisterProviderBody(p) ==
    /\ At(p, "RegisterProvider", "body")
    /\ LET fr == Top(p)
           ok == fr.name \in DOMAIN providers[fr.s]
       IN  IF ok /\ ~allowProviderOverride[fr.s]
           THEN /\ panicking' = [panicking EXCEPT ![p] = TRUE]
                /\ stack' = SetTop(p, [fr EXCEPT !.ok = ok])
                /\ UNCHANGED providers
           ELSE /\ providers' = [providers EXCEPT
                                   ![fr.s] = (fr.name :> fr.f) @@ providers[fr.s]]
                /\ stack' = SetTop(p, [fr EXCEPT !.pc = "ret", !.ok = ok])
                /\ UNCHANGED panicking
    /\ UNCHANGED <<allowProviderOverride, watchVars, lockVars, result, envVars>>

\* ------------------------------------------------------------------------
\* Store.AllowProviderOverride
\* ------------------------------------------------------------------------
CallAllowProviderOverride(p, s) ==
    /\ Idle(p)
    /\ stack' = Enter(p, [op |-> "AllowProviderOverride", pc |-> "lock", s |-> s,
                          defers |-> <<>>])
    /\ UNCHANGED <<storeVars, watchVars, lockVars, panicking, result, envVars>>

AllowProviderOverrideLock(p) ==
    /\ At(p, "AllowProviderOverride", "lock")
    /\ pMut[Top(p).s] = NoProc
    /\ pMut' = [pMut EXCEPT ![Top(p).s] = p]
    /\ stack' = SetTop(p, [Top(p) EXCEPT !.pc = "body",
                                         !.defers = <<PMutOf(Top(p).s)>>])
    /\ UNCHANGED <<storeVars, watchVars, notPMut, panicking, result, envVars>>

AllowProviderOverrideBody(p) ==
    /\ At(p, "AllowProviderOverride", "body")
    /\ allowProviderOverride' = [allowProviderOverride EXCEPT ![Top(p).s] = TRUE]
    /\ stack' = Goto(p, "ret")
    /\ UNCHANGED <<providers, watchVars, lockVars, panicking, result, envVars>>

\* ------------------------------------------------------------------------
\* Store.Clear
\* ------------------------------------------------------------------------
CallClear(p, s) ==
    /\ Idle(p)
    /\ stack' = Enter(p, [op |-> "Clear", pc |-> "lock", s |-> s, defers |-> <<>>])
    /\ UNCHANGED <<storeVars, watchVars, lockVars, panicking, result, envVars>>

ClearLock(p) ==
    /\ At(p, "Clear", "lock")
    /\ pMut[Top(p).s] = NoProc
    /\ pMut' = [pMut EXCEPT ![Top(p).s] = p]
    /\ stack' = SetTop(p, [Top(p) EXCEPT
                              !.pc = IF build = BuildPerStore THEN "lockFact" ELSE "body",
                              !.defers = <<PMutOf(Top(p).s)>>])
    /\ UNCHANGED <<storeVars, watchVars, notPMut, panicking, result, envVars>>

\* The second definition: s.pFactMut.Lock(); defer s.pFactMut.Unlock()
ClearLockFactories(p) ==
    /\ At(p, "Clear", "lockFact")
    /\ pFactMut = NoProc
    /\ pFactMut' = p
    /\ stack' = SetTop(p, [Top(p) EXCEPT !.pc = "body", !.defers = <<PFactMut>> \o @])
    /\ UNCHANGED <<storeVars, watchVars, notFMut, panicking, result, envVars>>

\* A Clear that empties the map and forgets the override flag.
ClearBodyKeepsOverride(p) ==
    /\ At(p, "Clear", "body")
    /\ providers' = [providers EXCEPT ![Top(p).s] = EmptyMap]
    /\ stack' = Goto(p, "ret")
    /\ UNCHANGED <<allowProviderOverride, watchVars, lockVars, panicking, result, envVars>>

\* s.providers = map[string]Provider{}; s.allowProviderOverride = false
\* and, in the second definition, s.providerFactories = map[string]func(string){}
ClearBody(p) ==
    /\ At(p, "Clear", "body")
    /\ providers' = [providers EXCEPT ![Top(p).s] = EmptyMap]
    /\ allowProviderOverride' = [allowProviderOverride EXCEPT ![Top(p).s] = FALSE]
    /\ providerFactories' = IF build = BuildPerStore THEN EmptyMap ELSE providerFactories
    /\ stack' = Goto(p, "ret")
    /\ UNCHANGED <<watchVars, lockVars, panicking, result, notFact>>

\* ------------------------------------------------------------------------
\* RegisterProviderFactory (package level)
\* ------------------------------------------------------------------------
RegisterProviderFactoryFrame(name, f) ==
    [op |-> "RegisterProviderFactory", pc |-> "lock", s |-> "global", name |-> name,
     f |-> f, defers |-> <<>>]

CallRegisterProviderFactory(p, name, f) ==
    /\ Idle(p)
    /\ stack' = Enter(p, RegisterProviderFactoryFrame(name, f))
    /\ UNCHANGED <<storeVars, watchVars, lockVars, panicking, result, envVars>>

\* The lock RegisterProviderFactory takes: pFactMut in configstore.go; in the
\* second definition the function is _store.RegisterProviderFactory, which
\* takes s.pMut.
FactoryRegistryLock ==
    IF build = BuildPerStore THEN PMutOf(DefaultStore) ELSE PFactMut

\* pFactMut.Lock(); defer pFactMut.Unlock()
\* (second definition: s.pMut.Lock(); defer s.pMut.Unlock())
RegisterProviderFactoryLock(p) ==
    /\ At(p, "RegisterProviderFactory", "lock")
    /\ IF build = BuildPerStore
       THEN /\ pMut[DefaultStore] = NoProc
            /\ pMut' = [pMut EXCEPT ![DefaultStore] = p]
            /\ UNCHANGED pFactMut
       ELSE /\ pFactMut = NoProc
            /\ pFactMut' = p
            /\ UNCHANGED pMut
    /\ stack' = SetTop(p, [Top(p) EXCEPT !.pc = "body", !.defers = <<FactoryRegistryLock>>])
    /\ UNCHANGED <<storeVars, watchVars, watchersMut, panicking, result, envVars>>

\* _, ok := providerFactories[name]; if ok { panic }; providerFactories[name] = f
RegisterProviderFactoryBody(p) ==
    /\ At(p, "RegisterProviderFactory", "body")
    /\ IF Top(p).name \in DOMAIN providerFactories
       THEN /\ panicking' = [panicking EXCEPT ![p] = TRUE]
            /\ UNCHANGED <<providerFactories, stack>>
       ELSE /\ providerFactories' = (Top(p).name :> Top(p).f) @@ providerFactories
            /\ stack' = Goto(p, "ret")
            /\ UNCHANGED panicking
    /\ UNCHANGED <<storeVars, watchVars, lockVars, result, notFact>>

\* ------------------------------------------------------------------------
\* Store.Watch
\* ------------------------------------------------------------------------
Range(q) == {q[i] : i \in DOMAIN q}

\* A Watch whose channel buffers two signals.
CallWatchCap2(p, s) ==
    /\ Idle(p)
    /\ Len(chans) < MaxWatchers
    /\ chans' = Append(chans, [cap |-> 2, len |-> 0])
    /\ sends' = Append(sends, 0)
    /\ stack' = Enter(p, [op |-> "Watch", pc |-> "lock", s |-> s,
                          newCh |-> Len(chans) + 1, defers |-> <<>>])
    /\ UNCHANGED <<storeVars, watchers, held, lockVars, panicking, result, envVars>>

\* The call and its first statement: newCh := make(chan struct{}, 1).
\* Watch is called at most MaxWatchers times.
CallWatch(p, s) ==
    /\ Idle(p)
    /\ Len(chans) < MaxWatchers
    /\ chans' = Append(chans, [cap |-> 1, len |-> 0])
    /\ sends' = Append(sends, 0)
    /\ stack' = Enter(p, [op |-> "Watch", pc |-> "lock", s |-> s,
                          newCh |-> Len(chans) + 1, defers |-> <<>>])
    /\ UNCHANGED <<storeVars, watchers, held, lockVars, panicking, result, envVars>>

\* s.watchersMut.Lock()
WatchLock(p) ==
    /\ At(p, "Watch", "lock")
    /\ watchersMut[Top(p).s] = NoProc
    /\ watchersMut' = [watchersMut EXCEPT ![Top(p).s] = p]
    /\ stack' = Goto(p, "append")
    /\ UNCHANGED <<storeVars, watchVars, notWMut, panicking, result, envVars>>

\* s.watchers = append(s.watchers, newCh)
WatchAppend(p) ==
    /\ At(p, "Watch", "append")
    /\ watchers' = [watchers EXCEPT ![Top(p).s] = Append(@, Top(p).newCh)]
    /\ stack' = Goto(p, "unlock")
    /\ UNCHANGED <<storeVars, chans, held, sends, lockVars, panicking, result, envVars>>

\* s.watchersMut.Unlock(); return newCh
WatchUnlock(p) ==
    /\ At(p, "Watch", "unlock")
    /\ watchersMut' = [watchersMut EXCEPT ![Top(p).s] = NoProc]
    /\ stack' = Goto(p, "ret")
    /\ UNCHANGED <<storeVars, watchVars, notWMut, panicking, result, envVars>>

\* ------------------------------------------------------------------------
\* Store.NotifyWatchers
\* ------------------------------------------------------------------------
\* pre and readSince are history: the channels of s that Watch had returned
\* when the call started, and the channels read since then.
NotifyWatchersFrame(s) ==
    [op |-> "NotifyWatchers", pc |-> "lock", s |-> s, ws |-> <<>>, i |-> 1,
     pre |-> held \cap Range(watchers[s]), readSince |-> {}, defers |-> <<>>]

CallNotifyWatchers(p, s) ==
    /\ Idle(p)
    /\ stack' = Enter(p, NotifyWatchersFrame(s))
    /\ UNCHANGED <<storeVars, watchVars, lockVars, panicking, result, envVars>>

\* s.watchersMut.Lock(); the range expression s.watchers is evaluated once.
NotifyWatchersLock(p) ==
    /\ At(p, "NotifyWatchers", "lock")
    /\ watchersMut[Top(p).s] = NoProc
    /\ watchersMut' = [watchersMut EXCEPT ![Top(p).s] = p]
    /\ stack' = SetTop(p, [Top(p) EXCEPT !.pc = "loop", !.ws = watchers[Top(p).s],
                                         !.i = 1])
    /\ UNCHANGED <<storeVars, watchVars, notWMut, panicking, result, envVars>>

\* select { case ch <- struct{}{}: default: }
TrySend(ch) ==
    IF chans[ch].len < chans[ch].cap
    THEN [chans EXCEPT ![ch].len = @ + 1]
    ELSE chans

\* A fan-out that gives up at the first channel that is full.
NotifyWatchersSendStopsWhenFull(p) ==
    /\ At(p, "NotifyWatchers", "loop")
    /\ Top(p).i <= Len(Top(p).ws)
    /\ LET ch == Top(p).ws[Top(p).i] IN
       /\ chans' = TrySend(ch)
       /\ sends' = [sends EXCEPT ![ch] = IF @ < 2 THEN @ + 1 ELSE @]
       /\ stack' = SetTop(p, [Top(p) EXCEPT !.i =
                       IF chans[ch].len < chans[ch].cap THEN @ + 1
                       ELSE Len(Top(p).ws) + 1])
    /\ UNCHANGED <<storeVars, watchers, held, lockVars, panicking, result, envVars>>

\* A fan-out whose send waits for room in the channel.
NotifyWatchersSendBlocking(p) ==
    /\ At(p, "NotifyWatchers", "loop")
    /\ Top(p).i <= Len(Top(p).ws)
    /\ LET ch == Top(p).ws[Top(p).i] IN
       /\ chans[ch].len < chans[ch].cap
       /\ chans' = [chans EXCEPT ![ch].len = @ + 1]
       /\ sends' = [sends EXCEPT ![ch] = IF @ < 2 THEN @ + 1 ELSE @]
       /\ stack' = SetTop(p, [Top(p) EXCEPT !.i = @ + 1])
    /\ UNCHANGED <<storeVars, watchers, held, lockVars, panicking, result, envVars>>

\* One iteration of: for _, ch := range s.watchers { select {...} }
NotifyWatchersSend(p) ==
    /\ At(p, "NotifyWatchers", "loop")
    /\ Top(p).i <= Len(Top(p).ws)
    /\ LET ch == Top(p).ws[Top(p).i] IN
       /\ chans' = TrySend(ch)
       /\ sends' = [sends EXCEPT ![ch] = IF @ < 2 THEN @ + 1 ELSE @]
       /\ stack' = SetTop(p, [Top(p) EXCEPT !.i = @ + 1])
    /\ UNCHANGED <<storeVars, watchers, held, lockVars, panicking, result, envVars>>

\* The loop is over: s.watchersMut.Unlock()
NotifyWatchersUnlock(p) ==
    /\ At(p, "NotifyWatchers", "loop")
    /\ Top(p).i > Len(Top(p).ws)
    /\ watchersMut' = [watchersMut EXCEPT ![Top(p).s] = NoProc]
    /\ stack' = Goto(p, "ret")
    /\ UNCHANGED <<storeVars, watchVars, notWMut, panicking, result, envVars>>

\* ------------------------------------------------------------------------
\* A consumer receives from a channel that Watch returned to it
\* ------------------------------------------------------------------------
NoteRead(fr, ch) ==
    IF fr.op = "NotifyWatchers" THEN [fr EXCEPT !.readSince = @ \cup ({ch} \cap fr.pre)]
    ELSE fr

ConsumerRead(ch) ==
    /\ ch \in held
    /\ chans[ch].len > 0
    /\ chans' = [chans EXCEPT ![ch].len = @ - 1]
    /\ sends' = [sends EXCEPT ![ch] = 0]
    /\ stack' = [p \in Procs |-> [k \in DOMAIN stack[p] |-> NoteRead(stack[p][k], ch)]]
    /\ UNCHANGED <<storeVars, watchers, held, lockVars, panicking, result, envVars>>

\* ------------------------------------------------------------------------
\* InMemoryProvider: Store.InMemory, Add
\* ------------------------------------------------------------------------
InMemoryFrame(s, name) ==
    [op |-> "InMemory", pc |-> "new", s |-> s, name |-> name, inmem |-> 0,
     defers |-> <<>>]

\* inmem := &InMemoryProvider{}; s.RegisterProvider(name, inmem.Items); return inmem
InMemoryNew(p) ==
    /\ At(p, "InMemory", "new")
    /\ inmems' = Append(inmems, [items |-> <<>>, mut |-> NoProc])
    /\ stack' = [stack EXCEPT ![p] =
                   <<RegisterProviderFrame(Top(p).s, Top(p).name, InMemItems(Len(inmems) + 1)),
                     [Top(p) EXCEPT !.pc = "ret", !.inmem = Len(inmems) + 1]>> \o Tail(@)]
    /\ UNCHANGED <<storeVars, watchVars, lockVars, panicking, result, notInmems>>

\* InMemoryProvider.Items, the function InMemory registers, called by a
\* consumer of the provider registered under name; got is the list returned.
InMemoryItemsFrame(name, k) ==
    [op |-> "InMemoryProvider.Items", pc |-> "lock", s |-> k, name |-> name,
     inmem |-> k, got |-> <<>>, defers |-> <<>>]

CallProvider(p, s, name) ==
    /\ Idle(p)
    /\ name \in DOMAIN providers[s]
    /\ providers[s][name].kind = "inmem"
    /\ stack' = Enter(p, InMemoryItemsFrame(name, providers[s][name].id))
    /\ UNCHANGED <<storeVars, watchVars, lockVars, panicking, result, envVars>>

\* inmem.mut.Lock(); defer inmem.mut.Unlock()
InMemoryItemsLock(p) ==
    /\ At(p, "InMemoryProvider.Items", "lock")
    /\ inmems[Top(p).inmem].mut = NoProc
    /\ inmems' = [inmems EXCEPT ![Top(p).inmem].mut = p]
    /\ stack' = SetTop(p, [Top(p) EXCEPT !.pc = "body",
                                         !.defers = <<InMemMut(Top(p).inmem)>>])
    /\ UNCHANGED <<storeVars, watchVars, lockVars, panicking, result, notInmems>>

\* return ItemList{Items: inmem.items}, nil
InMemoryItemsBody(p) ==
    /\ At(p, "InMemoryProvider.Items", "body")
    /\ stack' = SetTop(p, [Top(p) EXCEPT !.pc = "ret", !.got = inmems[Top(p).inmem].items])
    /\ UNCHANGED <<storeVars, watchVars, lockVars, panicking, result, envVars>>

AddFrame(k, vals) ==
    [op |-> "Add", pc |-> "lock", s |-> k, inmem |-> k, vals |-> vals, defers |-> <<>>]

\* inmem.mut.Lock(); defer inmem.mut.Unlock()
AddLock(p) ==
    /\ At(p, "Add", "lock")
    /\ inmems[Top(p).inmem].mut = NoProc
    /\ inmems' = [inmems EXCEPT ![Top(p).inmem].mut = p]
    /\ stack' = SetTop(p, [Top(p) EXCEPT !.pc = "body",
                                         !.defers = <<InMemMut(Top(p).inmem)>>])
    /\ UNCHANGED <<storeVars, watchVars, lockVars, panicking, result, notInmems>>

\* inmem.items = append(inmem.items, s...)
AddBody(p) ==
    /\ At(p, "Add", "body")
    /\ inmems' = [inmems EXCEPT ![Top(p).inmem].items = @ \o Top(p).vals]
    /\ stack' = Goto(p, "ret")
    /\ UNCHANGED <<storeVars, watchVars, lockVars, panicking, result, notInmems>>

\* ------------------------------------------------------------------------
\* Store.file: the File, FileRefresh, FileCustom, FileCustomRefresh loaders
\* ------------------------------------------------------------------------
ProviderName(prefix, arg) == prefix \o <<":">> \o arg

FileFrame(s, filename, refresh) ==
    [op |-> "file", pc |-> "start", s |-> s, filename |-> filename,
     refresh |-> refresh, providername |-> <<>>, last |-> 0, vals |-> <<>>,
     err |-> "nil", inmem |-> 0, defers |-> <<>>]

\* A refresh loop needs a goroutine: FileRefresh is called at most once per
\* goroutine of the model, and no loader is called once MaxInMems
\* InMemoryProviders exist.
RefreshCalls ==
    Cardinality({g \in Goroutines : ~Idle(g)})
    + Cardinality({p \in Threads : \E k \in DOMAIN stack[p] :
                       stack[p][k].op = "file" /\ stack[p][k].refresh})

CallFile(p, s, filename, refresh) ==
    /\ Idle(p)
    /\ Len(inmems) < MaxInMems
    /\ refresh => RefreshCalls < Cardinality(Goroutines)
    /\ stack' = Enter(p, FileFrame(s, filename, refresh))
    /\ UNCHANGED <<storeVars, watchVars, lockVars, panicking, result, envVars>>

\* if filename == "" { return }; providername := "file:" + filename; last := time.Now()
FileStart(p) ==
    /\ At(p, "file", "start")
    /\ stack' = IF Top(p).filename = <<>>
                THEN Goto(p, "ret")
                ELSE SetTop(p, [Top(p) EXCEPT
                                  !.pc = "read",
                                  !.providername = ProviderName(StrFile, Top(p).filename),
                                  !.last = now])
    /\ UNCHANGED <<storeVars, watchVars, lockVars, panicking, result, envVars>>

\* vals, err := readFile(filename, fn); if err != nil { s.ErrorProvider(providername, err); return }
\* ErrorProvider is s.RegisterProvider(name, func() (ItemList, error) { return ItemList{}, err }).
FileRead(p) ==
    /\ At(p, "file", "read")
    /\ LET r == readFile(Top(p).filename) IN
       stack' = IF r.err # "nil"
                THEN [stack EXCEPT ![p] =
                        <<RegisterProviderFrame(Top(p).s, Top(p).providername,
                                                ErrorProviderFunc(r.err)),
                          [Top(p) EXCEPT !.pc = "ret", !.err = r.err]>> \o Tail(@)]
                ELSE SetTop(p, [Top(p) EXCEPT !.pc = "inmem", !.vals = r.vals])
    /\ UNCHANGED <<storeVars, watchVars, lockVars, panicking, result, envVars>>

\* inmem := InMemory(providername): the package-level InMemory, which is
\* _store.InMemory(name), whatever s is.
FileInMemory(p) ==
    /\ At(p, "file", "inmem")
    /\ stack' = Call(p, "add", InMemoryFrame(DefaultStore, Top(p).providername))
    /\ UNCHANGED <<storeVars, watchVars, lockVars, panicking, result, envVars>>

\* inmem.Add(vals...)
FileAdd(p) ==
    /\ At(p, "file", "add")
    /\ stack' = Call(p, "spawn", AddFrame(Top(p).inmem, Top(p).vals))
    /\ UNCHANGED <<storeVars, watchVars, lockVars, panicking, result, envVars>>

\* The refresh goroutine's frame.  pending, began and failed are history:
\* pending - the file was rewritten and no cycle begun since has ended;
\* began   - the cycle under way began after the last rewrite;
\* failed  - the last cycle that saw a later modification time failed to read.
RefreshFrame(fr) ==
    [op |-> "refresh", pc |-> "wait", s |-> fr.s, filename |-> fr.filename,
     providername |-> fr.providername, last |-> fr.last, inmem |-> fr.inmem,
     vals |-> <<>>, pending |-> FALSE, began |-> FALSE, failed |-> FALSE,
     defers |-> <<>>]

\* if refresh { go func() { ... }() }
FileSpawn(p) ==
    /\ At(p, "file", "spawn")
    /\ stack' = IF Top(p).refresh
                THEN LET g == CHOOSE g \in Goroutines : Idle(g) IN
                     [Goto(p, "ret") EXCEPT ![g] = <<RefreshFrame(Top(p))>>]
                ELSE Goto(p, "ret")
    /\ UNCHANGED <<storeVars, watchVars, lockVars, panicking, result, envVars>>

\* ------------------------------------------------------------------------
\* The refresh goroutine of Store.file
\* ------------------------------------------------------------------------
\* for range ticker.C: a tick arrives.
RefreshTick(g) ==
    /\ At(g, "refresh", "wait")
    /\ stack' = SetTop(g, [Top(g) EXCEPT !.pc = "stat", !.began = Top(g).pending])
    /\ UNCHANGED <<storeVars, watchVars, lockVars, panicking, result, envVars>>

EndCycle(fr) ==
    [fr EXCEPT !.pc = "wait", !.began = FALSE,
               !.pending = IF fr.began THEN FALSE ELSE fr.pending]

\* finfo, err := os.Stat(filename); if err != nil { continue }
\* if finfo.ModTime().After(last) { last = finfo.ModTime() } else { continue }
RefreshStat(g) ==
    /\ At(g, "refresh", "stat")
    /\ LET finfo == Stat(Top(g).filename) IN
       stack' = IF finfo.err # "nil" THEN SetTop(g, EndCycle(Top(g)))
                ELSE IF finfo.ModTime > Top(g).last
                THEN SetTop(g, [Top(g) EXCEPT !.pc = "read", !.last = finfo.ModTime])
                ELSE SetTop(g, EndCycle(Top(g)))
    /\ UNCHANGED <<storeVars, watchVars, lockVars, panicking, result, envVars>>

\* A refresh that publishes whatever readFile returned, error or not.
RefreshReadClobbers(g) ==
    /\ At(g, "refresh", "read")
    /\ LET r == readFile(Top(g).filename) IN
       /\ stack' = IF r.err # "nil"
                   THEN SetTop(g, [EndCycle(Top(g)) EXCEPT !.failed = TRUE])
                   ELSE SetTop(g, [Top(g) EXCEPT !.pc = "lock", !.vals = r.vals,
                                                 !.failed = FALSE])
       /\ inmems' = IF r.err # "nil"
                    THEN [inmems EXCEPT ![Top(g).inmem].items = r.vals]
                    ELSE inmems
    /\ UNCHANGED <<storeVars, watchVars, lockVars, panicking, result, notInmems>>

\* vals, err := readFile(filename, fn); if err != nil { continue }
RefreshRead(g) ==
    /\ At(g, "refresh", "read")
    /\ LET r == readFile(Top(g).filename) IN
       stack' = IF r.err # "nil"
                THEN SetTop(g, [EndCycle(Top(g)) EXCEPT !.failed = TRUE])
                ELSE SetTop(g, [Top(g) EXCEPT !.pc = "lock", !.vals = r.vals,
                                              !.failed = FALSE])
    /\ UNCHANGED <<storeVars, watchVars, lockVars, panicking, result, envVars>>

\* inmem.mut.Lock()
RefreshLock(g) ==
    /\ At(g, "refresh", "lock")
    /\ inmems[Top(g).inmem].mut = NoProc
    /\ inmems' = [inmems EXCEPT ![Top(g).inmem].mut = g]
    /\ stack' = Goto(g, "swap")
    /\ UNCHANGED <<storeVars, watchVars, lockVars, panicking, result, notInmems>>

\* A refresh that notifies without having replaced the item list.
RefreshSwapLate(g) ==
    /\ At(g, "refresh", "swap")
    /\ inmems' = [inmems EXCEPT ![Top(g).inmem].mut = NoProc]
    /\ stack' = Goto(g, "notify")
    /\ UNCHANGED <<storeVars, watchVars, lockVars, panicking, result, notInmems>>

\* inmem.items = vals; inmem.mut.Unlock()
RefreshSwap(g) ==
    /\ At(g, "refresh", "swap")
    /\ inmems' = [inmems EXCEPT ![Top(g).inmem].items = Top(g).vals,
                                ![Top(g).inmem].mut = NoProc]
    /\ stack' = Goto(g, "notify")
    /\ UNCHANGED <<storeVars, watchVars, lockVars, panicking, result, notInmems>>

\* s.NotifyWatchers()
RefreshNotify(g) ==
    /\ At(g, "refresh", "notify")
    /\ stack' = Call(g, "done", NotifyWatchersFrame(Top(g).s))
    /\ UNCHANGED <<storeVars, watchVars, lockVars, panicking, result, envVars>>

\* The end of the loop body: back to waiting for a tick.
RefreshDone(g) ==
    /\ At(g, "refresh", "done")
    /\ stack' = SetTop(g, EndCycle(Top(g)))
    /\ UNCHANGED <<storeVars, watchVars, lockVars, panicking, result, envVars>>

\* ------------------------------------------------------------------------
\* The outside world acting on the watched file
\* ------------------------------------------------------------------------
NoteWrite(fr, path) ==
    IF fr.op = "refresh" /\ fr.filename = path
    THEN [fr EXCEPT !.pending = TRUE, !.began = FALSE]
    ELSE fr

\* The file is rewritten: its modification time is the time of the write,
\* later than every time read before.
WriteFile(path, content) ==
    /\ now < MaxClock
    /\ now' = now + 1
    /\ fs' = [fs EXCEPT ![path] =
                 [kind |-> "file",
                  readable |-> IF @.kind = "file" THEN @.readable ELSE TRUE,
                  content |-> content, mtime |-> now + 1,
                  healthy |-> content \in GoodContents
                              /\ (IF @.kind = "file" THEN @.readable ELSE TRUE),
                  entries |-> <<>>]]
    /\ stack' = [p \in Procs |-> [k \in DOMAIN stack[p] |-> NoteWrite(stack[p][k], path)]]
    /\ UNCHANGED <<storeVars, watchVars, lockVars, panicking, result, notFs>>

\* chmod: the file becomes unreadable or readable again; its modification
\* time does not change.
Chmod(path, readable) ==
    /\ fs[path].kind = "file"
    /\ fs[path].readable # readable
    /\ fs' = [fs EXCEPT ![path].readable = readable,
                        ![path].healthy = @ /\ readable]
    /\ UNCHANGED <<now, storeVars, watchVars, lockVars, procVars, notFs>>

\* The file is removed.
Remove(path) ==
    /\ fs[path].kind = "file"
    /\ fs' = [fs EXCEPT ![path] = NoFile]
    /\ UNCHANGED <<now, storeVars, watchVars, lockVars, procVars, notFs>>

\* ------------------------------------------------------------------------
\* Store.FileTree
\* ------------------------------------------------------------------------
FileTreeFrame(s, dirname) ==
    [op |-> "FileTree", pc |-> "start", s |-> s, dirname |-> dirname,
     providername |-> <<>>, items |-> <<>>, err |-> "nil", inmem |-> 0, i |-> 0,
     defers |-> <<>>]

CallFileTree(p, s, dirname) ==
    /\ Idle(p)
    /\ Len(inmems) < MaxInMems
    /\ stack' = Enter(p, FileTreeFrame(s, dirname))
    /\ UNCHANGED <<storeVars, watchVars, lockVars, panicking, result, envVars>>

\* A FileTree that, on an error, serves the items read before it.
FileTreeScanPartial(p) ==
    /\ At(p, "FileTree", "start")
    /\ LET providername == ProviderName(StrFileTree, Top(p).dirname)
           d == ReadDir(Top(p).dirname)
           r == IF d.err # "nil" THEN [items |-> <<>>, err |-> d.err]
                ELSE FileTreeLoop(<<>>, Top(p).dirname, d.files, 1)
       IN  stack' =
             IF Top(p).dirname = <<>> THEN Goto(p, "ret")
             ELSE SetTop(p, [Top(p) EXCEPT !.pc = "inmem", !.providername = providername,
                                           !.items = r.items, !.err = r.err])
    /\ UNCHANGED <<storeVars, watchVars, lockVars, panicking, result, envVars>>

\* if dirname == "" { return }; providername := "filetree:" + dirname
\* files, err := ioutil.ReadDir(dirname), then the loop over files; on any
\* error: s.ErrorProvider(providername, err); return
FileTreeScan(p) ==
    /\ At(p, "FileTree", "start")
    /\ LET providername == ProviderName(StrFileTree, Top(p).dirname)
           d == ReadDir(Top(p).dirname)
           r == IF d.err # "nil" THEN [items |-> <<>>, err |-> d.err]
                ELSE FileTreeLoop(<<>>, Top(p).dirname, d.files, 1)
       IN  stack' =
             IF Top(p).dirname = <<>> THEN Goto(p, "ret")
             ELSE IF r.err # "nil"
             THEN [stack EXCEPT ![p] =
                     <<RegisterProviderFrame(Top(p).s, providername, ErrorProviderFunc(r.err)),
                       [Top(p) EXCEPT !.pc = "ret", !.providername = providername,
                                      !.err = r.err]>> \o Tail(@)]
             ELSE SetTop(p, [Top(p) EXCEPT !.pc = "inmem", !.providername = providername,
                                           !.items = r.items])
    /\ UNCHANGED <<storeVars, watchVars, lockVars, panicking, result, envVars>>

\* inmem := InMemory(providername): the package-level InMemory again.
FileTreeInMemory(p) ==
    /\ At(p, "FileTree", "inmem")
    /\ stack' = Call(p, "add", InMemoryFrame(DefaultStore, Top(p).providername))
    /\ UNCHANGED <<storeVars, watchVars, lockVars, panicking, result, envVars>>

\* for _, it := range items { inmem.Add(it) }
FileTreeAdd(p) ==
    /\ At(p, "FileTree", "add")
    /\ stack' = IF Top(p).i >= Len(Top(p).items)
                THEN Goto(p, "ret")
                ELSE [stack EXCEPT ![p] =
                        <<AddFrame(Top(p).inmem, <<Top(p).items[Top(p).i + 1]>>),
                          [Top(p) EXCEPT !.i = @ + 1]>> \o Tail(@)]
    /\ UNCHANGED <<storeVars, watchVars, lockVars, panicking, result, envVars>>

\* ------------------------------------------------------------------------
\* Store.FileList
\* ------------------------------------------------------------------------
FileListFrame(s, dirname) ==
    [op |-> "FileList", pc |-> "start", s |-> s, dirname |-> dirname,
     files |-> <<>>, err |-> "nil", i |-> 0, defers |-> <<>>]

CallFileList(p, s, dirname) ==
    /\ Idle(p)
    /\ Len(inmems) < MaxInMems
    /\ stack' = Enter(p, FileListFrame(s, dirname))
    /\ UNCHANGED <<storeVars, watchVars, lockVars, panicking, result, envVars>>

\* if dirname == "" { return }; files, err := ioutil.ReadDir(dirname)
\* if err != nil { s.ErrorProvider("filelist:" + dirname, err); return }
FileListReadDir(p) ==
    /\ At(p, "FileList", "start")
    /\ LET d == ReadDir(Top(p).dirname) IN
       stack' =
         IF Top(p).dirname = <<>> THEN Goto(p, "ret")
         ELSE IF d.err # "nil"
         THEN [stack EXCEPT ![p] =
                 <<RegisterProviderFrame(Top(p).s, ProviderName(StrFileList, Top(p).dirname),
                                         ErrorProviderFunc(d.err)),
                   [Top(p) EXCEPT !.pc = "ret", !.err = d.err]>> \o Tail(@)]
         ELSE SetTop(p, [Top(p) EXCEPT !.pc = "loop", !.files = d.files])
    /\ UNCHANGED <<storeVars, watchVars, lockVars, panicking, result, envVars>>

\* for _, file := range files { s.File(filepath.Join(dirname, file.Name())) }
FileListLoop(p) ==
    /\ At(p, "FileList", "loop")
    /\ stack' = IF Top(p).i >= Len(Top(p).files)
                THEN Goto(p, "ret")
                ELSE [stack EXCEPT ![p] =
                        <<FileFrame(Top(p).s,
                                    Join(Top(p).dirname, Top(p).files[Top(p).i + 1].Name),
                                    FALSE),
                          [Top(p) EXCEPT !.i = @ + 1]>> \o Tail(@)]
    /\ UNCHANGED <<storeVars, watchVars, lockVars, panicking, result, envVars>>

\* ------------------------------------------------------------------------
\* Store.InitFromEnvironment
\* ------------------------------------------------------------------------
StrFailedFactory == "failed to instantiate provider factory"

InitFromEnvironmentFrame(s) ==
    [op |-> "InitFromEnvironment", pc |-> "lock", s |-> s, cfgList |-> <<>>, i |-> 0,
     defers |-> <<>>]

CallInitFromEnvironment(p, s) ==
    /\ Idle(p)
    /\ Len(inmems) < MaxInMems
    /\ stack' = Enter(p, InitFromEnvironmentFrame(s))
    /\ UNCHANGED <<storeVars, watchVars, lockVars, panicking, result, envVars>>

\* pFactMut.Lock(); defer pFactMut.Unlock()
InitFromEnvironmentLock(p) ==
    /\ At(p, "InitFromEnvironment", "lock")
    /\ pFactMut = NoProc
    /\ pFactMut' = p
    /\ stack' = SetTop(p, [Top(p) EXCEPT !.pc = "getenv", !.defers = <<PFactMut>>])
    /\ UNCHANGED <<storeVars, watchVars, notFMut, panicking, result, envVars>>

\* cfg := os.Getenv(ConfigEnvVar); if cfg == "" { return }
\* cfgList := strings.Split(cfg, ",")
InitFromEnvironmentGetenv(p) ==
    /\ At(p, "InitFromEnvironment", "getenv")
    /\ stack' = IF environ = <<>>
                THEN Goto(p, "ret")
                ELSE SetTop(p, [Top(p) EXCEPT !.pc = "loop", !.cfgList = Split(environ, ",")])
    /\ UNCHANGED <<storeVars, watchVars, lockVars, panicking, result, envVars>>

\* parts := strings.SplitN(c, ":", 2) ... name, arg = TrimSpace(name), TrimSpace(arg)
Directive(c) ==
    LET parts == SplitN2(c, ":") IN
    [name |-> TrimSpace(IF Len(parts) > 1 THEN parts[1] ELSE c),
     arg  |-> TrimSpace(IF Len(parts) > 1 THEN parts[2] ELSE <<>>)]

\* f := providerFactories[name]: nil when no factory has that name.
Unregistered(c) == Directive(c).name \notin DOMAIN providerFactories

\* What the factory f does with arg.  The built-in factories are the
\* package-level File, FileList and FileTree, which act on _store; a factory
\* the user registered is the user's code: one that registers a provider
\* named arg, one that registers a further factory named arg, or one that
\* calls nothing of the library.
FactoryCall(f, arg) ==
    IF f = "File" THEN <<FileFrame(DefaultStore, arg, FALSE)>>
    ELSE IF f = "FileList" THEN <<FileListFrame(DefaultStore, arg)>>
    ELSE IF f = "FileTree" THEN <<FileTreeFrame(DefaultStore, arg)>>
    ELSE IF f = "ProviderFactory"
    THEN <<RegisterProviderFrame(DefaultStore, arg, [kind |-> "func", id |-> "p1"])>>
    ELSE IF f = "RegisteringFactory"
    THEN <<RegisterProviderFactoryFrame(arg, "UserFactory")>>
    ELSE <<>>

\* One iteration of for _, c := range cfgList.  i is the directive under way.
InitFromEnvironmentLoop(p) ==
    /\ At(p, "InitFromEnvironment", "loop")
    /\ stack' =
         IF Top(p).i >= Len(Top(p).cfgList)
         THEN Goto(p, "ret")
         ELSE LET c == Top(p).cfgList[Top(p).i + 1]
                  d == Directive(c)
                  callee ==
                      IF Unregistered(c)
                      THEN <<RegisterProviderFrame(Top(p).s, ProviderName(d.name, d.arg),
                                                   ErrorProviderFunc(StrFailedFactory))>>
                      ELSE FactoryCall(providerFactories[d.name], d.arg)
              IN  [stack EXCEPT ![p] = callee \o <<[Top(p) EXCEPT !.i = @ + 1]>> \o Tail(@)]
    /\ UNCHANGED <<storeVars, watchVars, lockVars, panicking, result, envVars>>

\* The values CONFIGURATION_FROM takes: a directive naming no factory; the
\* same directive twice, with a space; a directive without argument followed
\* by a file that does not decode; an unknown factory followed by a tree; a
\* file whose name holds a colon, with spaces around it; the same unknown
\* directive twice followed by a file.
EnvValues ==
    { <<"x", ":", "a">>,
      <<"x", ":", "a", ",", " ", "x", ":", "a">>,
      <<"x", ",", "f", "i", "l", "e", ":", "b">>,
      <<"y", ":", "a", ",", "f", "i", "l", "e", "t", "r", "e", "e", ":", "d">>,
      <<"f", "i", "l", "e", ":", " ", "m", ":", "x", " ">>,
      <<"x", ":", "a", ",", "x", ":", "a", ",", "f", "i", "l", "e", ":", "b">> }

\* os.Setenv, between two calls into the library.
Setenv(v) ==
    /\ environ # v
    /\ \A p \in Procs : Idle(p)
    /\ environ' = v
    /\ UNCHANGED <<storeVars, watchVars, lockVars, procVars, notEnviron>>

\* ------------------------------------------------------------------------
\* EnvVariableProvider: Store.EnvVariable, BindEnv, Items
\* ------------------------------------------------------------------------
StrEnviron == <<"e", "n", "v", "i", "r", "o", "n">>

\* os.Environ(): one "name=value" string per variable that is set.
Environ == [i \in DOMAIN osEnv |-> osEnv[i].name \o <<"=">> \o osEnv[i].value]

WithPriority(n) ==
    [opt |-> "WithPriority", p |-> n, prefix |-> <<>>, keySeparator |-> <<>>]
WithAutomaticBinding(prefix, keySeparator) ==
    [opt |-> "WithAutomaticBinding", p |-> 0, prefix |-> prefix,
     keySeparator |-> keySeparator]

\* The item key WithAutomaticBinding derives from a variable name.
AutomaticKey(variable, prefix, keySeparator) ==
    ToLower(Replace(TrimPrefix(TrimPrefix(variable, prefix), <<"_">>), "_", keySeparator))

\* The loop of WithAutomaticBinding over env[i..]: BindEnv for every variable
\* that carries the prefix.
RECURSIVE AutomaticBindings(_, _, _, _, _)
AutomaticBindings(bindings, env, prefix, keySeparator, i) ==
    IF i > Len(env) THEN bindings
    ELSE LET variable == SplitN2(env[i], "=")[1] IN
         IF ~HasPrefix(variable, prefix)
         THEN AutomaticBindings(bindings, env, prefix, keySeparator, i + 1)
         ELSE AutomaticBindings(
                  (variable :> AutomaticKey(variable, prefix, keySeparator)) @@ bindings,
                  env, prefix, keySeparator, i + 1)

\* for _, opt := range opts { opt(&provider) }
RECURSIVE ApplyOpts(_, _, _)
ApplyOpts(provider, opts, i) ==
    IF i > Len(opts) THEN provider
    ELSE ApplyOpts(
             IF opts[i].opt = "WithPriority"
             THEN [provider EXCEPT !.priority = opts[i].p]
             ELSE [provider EXCEPT !.bindings =
                      AutomaticBindings(@, Environ, opts[i].prefix, opts[i].keySeparator, 1)],
             opts, i + 1)

EnvItems(e) == [kind |-> "env", id |-> e]

EnvVariableFrame(s, opts) ==
    [op |-> "EnvVariable", pc |-> "new", s |-> s, opts |-> opts, e |-> 0, defers |-> <<>>]

CallEnvVariable(p, s, opts) ==
    /\ Idle(p)
    /\ Len(envProvs) < MaxEnvProviders
    /\ stack' = Enter(p, EnvVariableFrame(s, opts))
    /\ UNCHANGED <<storeVars, watchVars, lockVars, panicking, result, envVars>>

\* provider = EnvVariableProvider{...}; the options run; then
\* s.RegisterProvider("environ", provider.Items); return &provider
EnvVariableNew(p) ==
    /\ At(p, "EnvVariable", "new")
    /\ inmems' = Append(inmems, [items |-> <<>>, mut |-> NoProc])
    /\ envProvs' = Append(envProvs,
                          ApplyOpts([inMemory |-> Len(inmems) + 1, bindings |-> EmptyMap,
                                     priority |-> 0],
                                    Top(p).opts, 1))
    /\ stack' = [stack EXCEPT ![p] =
                   <<RegisterProviderFrame(Top(p).s, StrEnviron, EnvItems(Len(envProvs) + 1)),
                     [Top(p) EXCEPT !.pc = "ret", !.e = Len(envProvs) + 1]>> \o Tail(@)]
    /\ UNCHANGED <<storeVars, watchVars, lockVars, panicking, result, notEv, osEnv>>

BindEnvFrame(e, environmentVariable, itemKey) ==
    [op |-> "BindEnv", pc |-> "lock", s |-> "env", e |-> e,
     environmentVariable |-> environmentVariable, itemKey |-> itemKey, defers |-> <<>>]

CallBindEnv(p, e, environmentVariable, itemKey) ==
    /\ Idle(p)
    /\ stack' = Enter(p, BindEnvFrame(e, environmentVariable, itemKey))
    /\ UNCHANGED <<storeVars, watchVars, lockVars, panicking, result, envVars>>

\* s.inMemory.mut.Lock(); defer s.inMemory.mut.Unlock()
BindEnvLock(p) ==
    /\ At(p, "BindEnv", "lock")
    /\ LET k == envProvs[Top(p).e].inMemory IN
       /\ inmems[k].mut = NoProc
       /\ inmems' = [inmems EXCEPT ![k].mut = p]
       /\ stack' = SetTop(p, [Top(p) EXCEPT !.pc = "body", !.defers = <<InMemMut(k)>>])
    /\ UNCHANGED <<storeVars, watchVars, lockVars, panicking, result, notInmems>>

\* s.bindings[environmentVariable] = itemKey
BindEnvBody(p) ==
    /\ At(p, "BindEnv", "body")
    /\ envProvs' = [envProvs EXCEPT ![Top(p).e].bindings =
                      (Top(p).environmentVariable :> Top(p).itemKey) @@ @]
    /\ stack' = Goto(p, "ret")
    /\ UNCHANGED <<storeVars, watchVars, lockVars, panicking, result, notEv, inmems, osEnv>>

\* Items: ret is the list the call returns.
ItemsFrame(e) ==
    [op |-> "Items", pc |-> "environ", s |-> "env", e |-> e, environ |-> <<>>, i |-> 0,
     ret |-> <<>>, defers |-> <<>>]

CallItems(p, e) ==
    /\ Idle(p)
    /\ stack' = Enter(p, ItemsFrame(e))
    /\ UNCHANGED <<storeVars, watchVars, lockVars, panicking, result, envVars>>

\* environ := os.Environ()
ItemsEnviron(p) ==
    /\ At(p, "Items", "environ")
    /\ stack' = SetTop(p, [Top(p) EXCEPT !.pc = "reset", !.environ = Environ])
    /\ UNCHANGED <<storeVars, watchVars, lockVars, panicking, result, envVars>>

\* A reset that keeps the items of the calls before.
ItemsResetKeeps(p) ==
    /\ At(p, "Items", "reset")
    /\ inmems[envProvs[Top(p).e].inMemory].mut = NoProc
    /\ stack' = Goto(p, "loop")
    /\ UNCHANGED <<storeVars, watchVars, lockVars, panicking, result, envVars>>

\* s.inMemory.mut.Lock(); s.inMemory.items = make([]Item, 0, len(environ)); Unlock()
ItemsReset(p) ==
    /\ At(p, "Items", "reset")
    /\ LET k == envProvs[Top(p).e].inMemory IN
       /\ inmems[k].mut = NoProc
       /\ inmems' = [inmems EXCEPT ![k].items = <<>>]
    /\ stack' = Goto(p, "loop")
    /\ UNCHANGED <<storeVars, watchVars, lockVars, panicking, result, notInmems>>

\* Another goroutine is about to write the bindings of p's provider.
WriterOf(p) ==
    {q \in Threads \ {p} : At(q, "BindEnv", "body") /\ Top(q).e = Top(p).e}

\* One iteration of for _, env := range environ: the bindings map is read
\* with no lock held; a bound variable's item is added under the lock.
ItemsLookup(p) ==
    /\ At(p, "Items", "loop")
    /\ stack' =
         IF Top(p).i >= Len(Top(p).environ)
         THEN Goto(p, "items")
         ELSE LET splittedEnv == SplitN2(Top(p).environ[Top(p).i + 1], "=")
                  variable == splittedEnv[1]
                  value == splittedEnv[2]
                  prov == envProvs[Top(p).e]
              IN  IF variable \in DOMAIN prov.bindings
                  THEN [stack EXCEPT ![p] =
                          <<AddFrame(prov.inMemory,
                                     <<[key |-> prov.bindings[variable], value |-> value,
                                        priority |-> prov.priority]>>),
                            [Top(p) EXCEPT !.i = @ + 1]>> \o Tail(@)]
                  ELSE SetTop(p, [Top(p) EXCEPT !.i = @ + 1])
    /\ UNCHANGED <<storeVars, watchVars, lockVars, panicking, result, envVars>>

\* The read of the map while another goroutine writes it is a data race: the
\* Go runtime may stop the program ("concurrent map read and map write").
ItemsLookupRace(p) ==
    /\ At(p, "Items", "loop")
    /\ Top(p).i < Len(Top(p).environ)
    /\ WriterOf(p) # {}
    /\ panicking' = [panicking EXCEPT ![p] = TRUE]
    /\ UNCHANGED <<storeVars, watchVars, lockVars, stack, result, envVars>>

\* return s.inMemory.Items(): the list read under the lock.
ItemsReturn(p) ==
    /\ At(p, "Items", "items")
    /\ LET k == envProvs[Top(p).e].inMemory IN
       /\ inmems[k].mut = NoProc
       /\ stack' = SetTop(p, [Top(p) EXCEPT !.pc = "ret", !.ret = inmems[k].items])
    /\ UNCHANGED <<storeVars, watchVars, lockVars, panicking, result, envVars>>

\* os.Setenv: a variable that is set keeps its place, a new one is appended.
OsSetenv(name, value) ==
    /\ osEnv' = IF \E i \in DOMAIN osEnv : osEnv[i].name = name
                THEN [i \in DOMAIN osEnv |->
                        IF osEnv[i].name = name THEN [name |-> name, value |-> value]
                        ELSE osEnv[i]]
                ELSE Append(osEnv, [name |-> name, value |-> value])
    /\ osEnv' # osEnv
    /\ UNCHANGED <<storeVars, watchVars, lockVars, procVars, notEv, inmems, envProvs>>

\* os.Unsetenv
OsUnsetenv(name) ==
    /\ \E i \in DOMAIN osEnv : osEnv[i].name = name
    /\ osEnv' = SelectSeq(osEnv, LAMBDA x : x.name # name)
    /\ UNCHANGED <<storeVars, watchVars, lockVars, procVars, notEv, inmems, envProvs>>

\* ------------------------------------------------------------------------
\* The registry under concurrent registration, override and Clear
\* ------------------------------------------------------------------------
Next ==
    \E p \in Threads :
        \/ \E s \in Stores, n \in ProviderNames, f \in UserProviders :
               CallRegisterProvider(p, s, n, f)
        \/ RegisterProviderLock(p)
        \/ RegisterProviderBody(p)
        \/ \E s \in Stores : CallAllowProviderOverride(p, s)
        \/ AllowProviderOverrideLock(p)
        \/ AllowProviderOverrideBody(p)
        \/ \E s \in Stores : CallClear(p, s)
        \/ ClearLock(p)
        \/ ClearBody(p)
        \/ Return(p)

Spec == Init /\ [][Next]_vars

\* ------------------------------------------------------------------------
\* Watchers: subscription, fan-out and consumers, next to registrations
\* that hold the other two locks
\* ------------------------------------------------------------------------
FactoryNames == {<<"x">>}

NextWatch ==
    \/ \E p \in Threads :
        \/ CallWatch(p, DefaultStore)
        \/ WatchLock(p)
        \/ WatchAppend(p)
        \/ WatchUnlock(p)
        \/ CallNotifyWatchers(p, DefaultStore)
        \/ NotifyWatchersLock(p)
        \/ NotifyWatchersSend(p)
        \/ NotifyWatchersUnlock(p)
        \/ Return(p)
    \/ \E ch \in DOMAIN chans : ConsumerRead(ch)

SpecWatch == Init /\ [][NextWatch]_vars

\* The same with the scheduling the runtime guarantees to the goroutines that
\* use watchersMut: a goroutine inside Watch or NotifyWatchers keeps running,
\* and sync.Mutex hands the lock to a waiter (starvation mode).  Nothing is
\* assumed of consumers, nor of the registrations, which may stop for ever
\* while holding pMut or pFactMut.
MaxLiveWatchers == 1
LiveProvider == [kind |-> "func", id |-> "p1"]
\* The goroutine that registers providers and factories meanwhile.
Registrar == "t2"

NextLive ==
    \/ \E p \in Threads :
        \/ Len(chans) < MaxLiveWatchers /\ CallWatch(p, DefaultStore)
        \/ WatchLock(p)
        \/ WatchAppend(p)
        \/ WatchUnlock(p)
        \/ CallNotifyWatchers(p, DefaultStore)
        \/ NotifyWatchersLock(p)
        \/ NotifyWatchersSend(p)
        \/ NotifyWatchersUnlock(p)
        \/ \E n \in ProviderNames :
               p = Registrar /\ CallRegisterProvider(p, DefaultStore, n, LiveProvider)
        \/ RegisterProviderLock(p)
        \/ RegisterProviderBody(p)
        \/ \E n \in FactoryNames :
               p = Registrar /\ CallRegisterProviderFactory(p, n, "UserFactory")
        \/ RegisterProviderFactoryLock(p)
        \/ RegisterProviderFactoryBody(p)
        \/ Return(p)
    \/ \E ch \in DOMAIN chans : ConsumerRead(ch)

WatchFairness ==
    \A p \in Procs :
        /\ SF_vars(NotifyWatchersLock(p))
        /\ WF_vars(NotifyWatchersSend(p))
        /\ WF_vars(NotifyWatchersUnlock(p))
        /\ WF_vars(WatchAppend(p))
        /\ WF_vars(WatchUnlock(p))

SpecLive == Init /\ [][NextLive]_vars /\ WatchFairness

\* ------------------------------------------------------------------------
\* A refreshing file loader called on either store, a subscriber of either
\* store, and the file being rewritten
\* ------------------------------------------------------------------------
Loader == "t1"
Subscriber == "t2"
MaxRefreshWatchers == 1

LoaderSteps(p) ==
    \/ FileStart(p)
    \/ FileRead(p)
    \/ FileInMemory(p)
    \/ FileAdd(p)
    \/ FileSpawn(p)
    \/ InMemoryNew(p)
    \/ AddLock(p)
    \/ AddBody(p)
    \/ RegisterProviderLock(p)
    \/ RegisterProviderBody(p)

RefreshSteps(p) ==
    \/ RefreshTick(p)
    \/ RefreshStat(p)
    \/ RefreshRead(p)
    \/ RefreshLock(p)
    \/ RefreshSwap(p)
    \/ RefreshNotify(p)
    \/ RefreshDone(p)
    \/ NotifyWatchersLock(p)
    \/ NotifyWatchersSend(p)
    \/ NotifyWatchersUnlock(p)

WatchSteps(p) ==
    \/ WatchLock(p)
    \/ WatchAppend(p)
    \/ WatchUnlock(p)

NextRefresh ==
    \/ \E s \in Stores : CallFile(Loader, s, WatchedFile, TRUE)
    \/ \E s \in Stores : Len(chans) < MaxRefreshWatchers /\ CallWatch(Subscriber, s)
    \/ \E p \in Procs : LoaderSteps(p) \/ RefreshSteps(p) \/ WatchSteps(p) \/ Return(p)
    \/ \E ch \in DOMAIN chans : ConsumerRead(ch)
    \/ \E c \in GoodContents \cup {BadContent} : WriteFile(WatchedFile, c)

SpecRefresh == Init /\ [][NextRefresh]_vars

\* ------------------------------------------------------------------------
\* Start-up: the loaders and InitFromEnvironment, called one after another
\* ------------------------------------------------------------------------
\* The providers registered, over all stores.
Registered ==
    UNION {{<<s, n>> : n \in DOMAIN providers[s]} : s \in Stores}

\* The paths the loaders are pointed at: a missing file, a file that does
\* not decode, and the directories of InitialFs.
FileArgs == {<<"m">>, <<"b">>}
DirArgs == {<<"d">>, <<"u">>, <<"n">>}

InitSteps(p) ==
    \/ InitFromEnvironmentLock(p)
    \/ InitFromEnvironmentGetenv(p)
    \/ InitFromEnvironmentLoop(p)
    \/ FileTreeScan(p)
    \/ FileTreeInMemory(p)
    \/ FileTreeAdd(p)
    \/ FileListReadDir(p)
    \/ FileListLoop(p)
    \/ AllowProviderOverrideLock(p)
    \/ AllowProviderOverrideBody(p)

NextInit ==
    \/ \E v \in EnvValues : Setenv(v)
    \/ /\ Cardinality(Registered) < MaxLoaded
       /\ \E s \in Stores :
            \/ CallInitFromEnvironment(Loader, s)
            \/ \E f \in FileArgs : CallFile(Loader, s, f, FALSE)
            \/ \E d \in DirArgs : CallFileTree(Loader, s, d) \/ CallFileList(Loader, s, d)
    \/ \E s \in Stores : CallAllowProviderOverride(Loader, s)
    \/ LoaderSteps(Loader) \/ InitSteps(Loader) \/ Return(Loader)

SpecInit == Init /\ [][NextInit]_vars

\* ------------------------------------------------------------------------
\* Start-up from the environment while another thread registers a factory
\* ------------------------------------------------------------------------
NextFactory ==
    \/ \E v \in EnvValues : Setenv(v)
    \/ /\ Cardinality(Registered) < MaxLoaded
       /\ CallInitFromEnvironment(Loader, DefaultStore)
    \/ InitFromEnvironmentLock(Loader)
    \/ InitFromEnvironmentGetenv(Loader)
    \/ InitFromEnvironmentLoop(Loader)
    \/ FileStart(Loader)
    \/ FileRead(Loader)
    \/ FileTreeScan(Loader)
    \/ FileTreeInMemory(Loader)
    \/ FileTreeAdd(Loader)
    \/ InMemoryNew(Loader)
    \/ AddLock(Loader)
    \/ AddBody(Loader)
    \/ RegisterProviderLock(Loader)
    \/ RegisterProviderBody(Loader)
    \/ \E n \in FactoryNames : CallRegisterProviderFactory(Subscriber, n, "UserFactory")
    \/ RegisterProviderFactoryLock(Subscriber)
    \/ RegisterProviderFactoryBody(Subscriber)
    \/ Return(Loader) \/ Return(Subscriber)

SpecFactory == Init /\ [][NextFactory]_vars

\* ------------------------------------------------------------------------
\* The whole Store API: one thread registers factories and starts up from
\* the environment, with factories that call back into the library, while
\* another registers providers, clears, watches and notifies
\* ------------------------------------------------------------------------
\* The factories the threads register: r registers a further factory, q a
\* provider.
CallingFactories ==
    { [name |-> <<"r">>, f |-> "RegisteringFactory"],
      [name |-> <<"q">>, f |-> "ProviderFactory"] }

\* CONFIGURATION_FROM: a directive for each of them.
CallingEnvValues ==
    { <<"r", ":", "x">>, <<"q", ":", "a">> }

NextApi ==
    \/ \E v \in CallingEnvValues : Setenv(v)
    \/ \E c \in CallingFactories : CallRegisterProviderFactory(Loader, c.name, c.f)
    \/ Cardinality(Registered) < MaxLoaded /\ CallInitFromEnvironment(Loader, DefaultStore)
    \/ \E n \in ProviderNames :
           CallRegisterProvider(Subscriber, DefaultStore, n, [kind |-> "func", id |-> "p1"])
    \/ CallAllowProviderOverride(Subscriber, DefaultStore)
    \/ CallClear(Subscriber, DefaultStore)
    \/ Len(chans) < MaxRefreshWatchers /\ CallWatch(Subscriber, DefaultStore)
    \/ CallNotifyWatchers(Subscriber, DefaultStore)
    \/ \E p \in Threads :
        \/ RegisterProviderLock(p)
        \/ RegisterProviderBody(p)
        \/ AllowProviderOverrideLock(p)
        \/ AllowProviderOverrideBody(p)
        \/ ClearLock(p)
        \/ ClearLockFactories(p)
        \/ ClearBody(p)
        \/ RegisterProviderFactoryLock(p)
        \/ RegisterProviderFactoryBody(p)
        \/ InitFromEnvironmentLock(p)
        \/ InitFromEnvironmentGetenv(p)
        \/ InitFromEnvironmentLoop(p)
        \/ WatchSteps(p)
        \/ NotifyWatchersLock(p)
        \/ NotifyWatchersSend(p)
        \/ NotifyWatchersUnlock(p)
        \/ Return(p)

SpecApi == InitEitherBuild /\ [][NextApi]_vars

\* The same, with the Store of configstore.go only.
SpecApiGlobal == Init /\ [][NextApi]_vars

\* ------------------------------------------------------------------------
\* A consumer queries the providers while File or FileTree loads them
\* ------------------------------------------------------------------------
LoadedTree == <<"d">>
QueryNames == {ProviderName(StrFile, WatchedFile), ProviderName(StrFileTree, LoadedTree)}

NextQuery ==
    \/ CallFile(Loader, DefaultStore, WatchedFile, FALSE)
    \/ CallFileTree(Loader, DefaultStore, LoadedTree)
    \/ LoaderSteps(Loader)
    \/ FileTreeScan(Loader)
    \/ FileTreeInMemory(Loader)
    \/ FileTreeAdd(Loader)
    \/ \E p \in Threads :
        \/ \E n \in QueryNames : CallProvider(p, DefaultStore, n)
        \/ InMemoryItemsLock(p)
        \/ InMemoryItemsBody(p)
        \/ Return(p)

SpecQuery == Init /\ [][NextQuery]_vars

\* ------------------------------------------------------------------------
\* The polling loop on the default store while the file is rewritten,
\* removed, or made unreadable and readable again
\* ------------------------------------------------------------------------
NextPoll ==
    \/ CallFile(Loader, DefaultStore, WatchedFile, TRUE)
    \/ Len(chans) < MaxRefreshWatchers /\ CallWatch(Subscriber, DefaultStore)
    \/ \E p \in Procs : LoaderSteps(p) \/ RefreshSteps(p) \/ WatchSteps(p) \/ Return(p)
    \/ \E ch \in DOMAIN chans : ConsumerRead(ch)
    \/ \E c \in GoodContents \cup {BadContent} : WriteFile(WatchedFile, c)
    \/ \E r \in BOOLEAN : Chmod(WatchedFile, r)
    \/ Remove(WatchedFile)

SpecPoll == Init /\ [][NextPoll]_vars

\* ------------------------------------------------------------------------
\* The environment-variable provider
\* ------------------------------------------------------------------------
\* The options the provider is made with.
EnvOptions ==
    { <<WithAutomaticBinding(<<"A">>, <<"_">>)>>,
      <<WithAutomaticBinding(<<"A">>, <<".">>), WithPriority(7)>> }
BoundKey == <<"k">>

BindSteps(p) ==
    \/ BindEnvLock(p)
    \/ BindEnvBody(p)

EnvSteps(p) ==
    \/ EnvVariableNew(p)
    \/ ItemsEnviron(p)
    \/ ItemsReset(p)
    \/ ItemsLookup(p)
    \/ ItemsReturn(p)
    \/ AddLock(p)
    \/ AddBody(p)
    \/ RegisterProviderLock(p)
    \/ RegisterProviderBody(p)
    \/ Return(p)

\* One goroutine makes the provider, binds variables and queries it, and the
\* environment changes between its calls: A_X_Y, set to 1 at the start, is
\* set to 2=3, the other variables to 1.
NextEnvSeq ==
    \/ \E opts \in EnvOptions : CallEnvVariable(Loader, DefaultStore, opts)
    \/ \E e \in DOMAIN envProvs :
         \/ CallBindEnv(Loader, e, VarOther, BoundKey)
         \/ CallItems(Loader, e)
    \/ EnvSteps(Loader) \/ BindSteps(Loader)
    \/ /\ Idle(Loader)
       /\ \/ \E n \in EnvNames, v \in EnvValueSet :
                ((n = VarAXY) # (v = <<"1">>)) /\ OsSetenv(n, v)
          \/ \E n \in EnvNames : OsUnsetenv(n)

SpecEnvSeq == Init /\ [][NextEnvSeq]_vars

\* Two goroutines query the provider concurrently; the environment changes
\* only while no call is under way, and the bindings do not change.
NextEnvConc ==
    \/ \E opts \in EnvOptions : CallEnvVariable(Loader, DefaultStore, opts)
    \/ \E p \in Threads, e \in DOMAIN envProvs : CallItems(p, e)
    \/ \E p \in Threads : EnvSteps(p)
    \/ /\ \A p \in Threads : Idle(p)
       /\ \E n \in {VarAB} : OsSetenv(n, <<"1">>) \/ OsUnsetenv(n)

SpecEnvConc == Init /\ [][NextEnvConc]_vars

\* Two goroutines bind variables and query the provider concurrently.
NextEnvRace ==
    \/ \E opts \in EnvOptions : CallEnvVariable(Loader, DefaultStore, opts)
    \/ \E p \in Threads, e \in DOMAIN envProvs :
         \/ CallItems(p, e)
         \/ CallBindEnv(p, e, VarAXY, BoundKey)
    \/ \E p \in Threads : EnvSteps(p) \/ BindSteps(p) \/ ItemsLookupRace(p)

SpecEnvRace == Init /\ [][NextEnvRace]_vars

\* ------------------------------------------------------------------------
\* Clear on the default store, between start-ups and notifications, in the
\* program built from either definition of Store
\* ------------------------------------------------------------------------
ClearEnvValues ==
    { <<"x", ":", "a">>, <<"x", ",", "f", "i", "l", "e", ":", "b">> }

NextClear ==
    \/ \E v \in ClearEnvValues : Setenv(v)
    \/ CallClear(Loader, DefaultStore)
    \/ ClearLock(Loader) \/ ClearLockFactories(Loader) \/ ClearBody(Loader)
    \/ Cardinality(Registered) < MaxLoaded /\ CallInitFromEnvironment(Loader, DefaultStore)
    \/ CallAllowProviderOverride(Loader, DefaultStore)
    \/ AllowProviderOverrideLock(Loader) \/ AllowProviderOverrideBody(Loader)
    \/ InitFromEnvironmentLock(Loader)
    \/ InitFromEnvironmentGetenv(Loader)
    \/ InitFromEnvironmentLoop(Loader)
    \/ FileStart(Loader) \/ FileRead(Loader)
    \/ RegisterProviderLock(Loader) \/ RegisterProviderBody(Loader)
    \/ Len(chans) < MaxRefreshWatchers /\ CallWatch(Subscriber, DefaultStore)
    \/ CallNotifyWatchers(Subscriber, DefaultStore)
    \/ WatchSteps(Subscriber)
    \/ NotifyWatchersLock(Subscriber)
    \/ NotifyWatchersSend(Subscriber)
    \/ NotifyWatchersUnlock(Subscriber)
    \/ \E p \in Threads : Return(p)
    \/ \E ch \in DOMAIN chans : ConsumerRead(ch)

SpecClear == InitEitherBuild /\ [][NextClear]_vars

\* ========================================================================
\* Claims
\* ========================================================================
\* The step of process p that executes the body of op (between lock and return).
BodyStep(p, op) ==
    /\ At(p, op, "body")
    /\ stack'[p] # stack[p]

\* C1: with override disabled, RegisterProvider on a name already in the
\* provider map panics, leaves the map as it was and releases pMut (no idle
\* process holds it, and unwinding the panic frees it); so while override is
\* disabled no step replaces the provider registered under a name.
C1_ConflictAborts ==
    /\ [][\A p \in Procs :
            (BodyStep(p, "RegisterProvider")
             /\ Top(p).name \in DOMAIN providers[Top(p).s]
             /\ ~allowProviderOverride[Top(p).s])
            => (panicking'[p] /\ providers' = providers)]_vars
    /\ [][\A p \in Procs :
            (panicking[p] /\ stack'[p] # stack[p] /\ Top(p).op = "RegisterProvider")
            => pMut'[Top(p).s] = NoProc]_vars
    /\ [](\A p \in Procs : Idle(p) => \A s \in Stores : pMut[s] # p)
    /\ [][\A s \in Stores : \A n \in DOMAIN providers[s] :
            (~allowProviderOverride[s] /\ n \in DOMAIN providers'[s])
            => providers'[s][n] = providers[s][n]]_vars

\* A registration was aborted on a store whose map still holds the earlier
\* provider, and the same process has since taken that store's lock again.
C1_Witness ==
    \E p \in Procs :
        /\ result[p].out = "panic"
        /\ At(p, "RegisterProvider", "ret")
        /\ Top(p).s = result[p].s
        /\ ~Top(p).ok

\* C2: once AllowProviderOverride has run on a store, a registration on a
\* registered name does not panic and stores the new provider under the name
\* (nothing else in the map changes); the flag goes from true to false only
\* in Clear, and Clear always leaves it false with an empty map.
C2_OverrideReplaces ==
    /\ [][\A p \in Procs :
            BodyStep(p, "AllowProviderOverride") => allowProviderOverride'[Top(p).s]]_vars
    /\ [][\A p \in Procs :
            (BodyStep(p, "RegisterProvider") /\ allowProviderOverride[Top(p).s])
            => /\ ~panicking'[p]
               /\ DOMAIN providers'[Top(p).s] = DOMAIN providers[Top(p).s] \cup {Top(p).name}
               /\ providers'[Top(p).s][Top(p).name] = Top(p).f
               /\ \A n \in DOMAIN providers[Top(p).s] \ {Top(p).name} :
                      providers'[Top(p).s][n] = providers[Top(p).s][n]]_vars
    /\ [][\A s \in Stores :
            (allowProviderOverride[s] /\ ~allowProviderOverride'[s])
            => \E p \in Procs : BodyStep(p, "Clear") /\ Top(p).s = s]_vars
    /\ [][\A p \in Procs :
            BodyStep(p, "Clear")
            => (~allowProviderOverride'[Top(p).s] /\ providers'[Top(p).s] = EmptyMap)]_vars

\* With override on, a registration has just replaced a different provider.
C2_Witness ==
    \E p \in Procs :
        /\ At(p, "RegisterProvider", "ret")
        /\ Top(p).ok
        /\ allowProviderOverride[Top(p).s]
        /\ providers[Top(p).s][Top(p).name] = Top(p).f
\* C3: every watch channel holds at most one pending signal, and a channel
\* that NotifyWatchers has tried to send to since its last read (once, twice
\* or more) holds exactly one.
C3_AtMostOnePending ==
    \A ch \in DOMAIN chans :
        /\ chans[ch].len <= 1
        /\ sends[ch] >= 1 => chans[ch].len = 1

\* Two notifications reached a channel with no read in between.
C3_Witness ==
    \E ch \in DOMAIN chans : sends[ch] = 2 /\ chans[ch].len = 1

\* C4: when NotifyWatchers has released the lock and is about to return,
\* every channel that Watch had returned before the call started and that
\* was not read since holds a signal; a send to a channel with room always
\* fills it; and the watcher list of a store only grows.
C4_AllWatchersSignalled ==
    /\ [](\A p \in Procs :
            At(p, "NotifyWatchers", "ret")
            => \A ch \in Top(p).pre \ Top(p).readSince : chans[ch].len >= 1)
    /\ [][\A p \in Procs :
            (At(p, "NotifyWatchers", "loop") /\ Top(p).i <= Len(Top(p).ws)
             /\ stack'[p][1].i # Top(p).i)
            => /\ chans'[Top(p).ws[Top(p).i]].len >= 1
               /\ stack'[p][1].i = Top(p).i + 1
               /\ Top(p).ws = watchers[Top(p).s]]_vars
    /\ [][\A s \in Stores :
            /\ Len(watchers'[s]) >= Len(watchers[s])
            /\ SubSeq(watchers'[s], 1, Len(watchers[s])) = watchers[s]]_vars

\* A notification returns with two watchers signalled, one of which was
\* already full when the call started.
C4_Witness ==
    \E p \in Procs :
        /\ At(p, "NotifyWatchers", "ret")
        /\ Cardinality(Top(p).pre \ Top(p).readSince) = 2
        /\ \E ch \in Top(p).pre : sends[ch] = 2
\* C5: a NotifyWatchers call that has started reaches its return, whatever
\* consumers and the holders of pMut and pFactMut do; the call takes its lock
\* as soon as watchersMut is free and, inside the loop, always has a step to
\* take: it waits for no other lock and for no consumer.
C5_NotifyTerminates ==
    /\ \A p \in Procs :
           (At(p, "NotifyWatchers", "lock") \/ At(p, "NotifyWatchers", "loop"))
           ~> At(p, "NotifyWatchers", "ret")
    /\ [](\A p \in Procs :
            (At(p, "NotifyWatchers", "lock") /\ watchersMut[Top(p).s] = NoProc)
            => ENABLED NotifyWatchersLock(p))
    /\ [](\A p \in Procs :
            At(p, "NotifyWatchers", "loop")
            => ENABLED (NotifyWatchersSend(p) \/ NotifyWatchersUnlock(p)))

\* A notification completed while another goroutine held pFactMut and a
\* watcher had left two notifications unread.
C5_Witness ==
    \E p \in Procs :
        /\ At(p, "NotifyWatchers", "ret")
        /\ pFactMut \notin {NoProc, p}
        /\ \E ch \in Top(p).pre \ Top(p).readSince : sends[ch] = 2
\* What querying the provider registered under name in store s returns.
Query(s, name) ==
    IF name \in DOMAIN providers[s] THEN Produce(providers[s][name])
    ELSE [items |-> <<>>, err |-> "not registered"]

\* The refresh goroutine g is returning from the NotifyWatchers call of a
\* cycle that began after the last rewrite of its file, and the file has
\* stayed readable and decodable since that rewrite.
RefreshServed(g) ==
    /\ Len(stack[g]) = 2
    /\ ~panicking[g]
    /\ stack[g][1].op = "NotifyWatchers" /\ stack[g][1].pc = "ret"
    /\ stack[g][2].op = "refresh"
    /\ stack[g][2].began
    /\ fs[stack[g][2].filename].healthy

\* C6: when the file of a refreshing file provider was rewritten with a
\* later modification time and has stayed readable and decodable, then once
\* the polling cycle begun at the next tick has re-read it and notified,
\* querying provider "file:<filename>" on the Store the loader was called on
\* returns the new content, and every watch channel of that Store that was
\* outstanding and has not been read since holds a signal.
C6_RefreshServesStore ==
    \A g \in Goroutines :
        RefreshServed(g)
        => LET nf == stack[g][1]
               rf == stack[g][2]
           IN  /\ Query(rf.s, rf.providername)
                    = [items |-> Unmarshal(fs[rf.filename].content).vals, err |-> "nil"]
               /\ \A ch \in nf.pre \ nf.readSince : chans[ch].len >= 1

\* C7: a cycle that saw a later modification time and then failed to read or
\* decode the file is retried: at the following tick, if the file is readable
\* and decodable again, the loop reads it again.
C7_FailedCycleRetried ==
    [][\A g \in Goroutines :
         (At(g, "refresh", "stat") /\ Top(g).failed
          /\ readFile(Top(g).filename).err = "nil"
          /\ stack'[g][1].pc # "stat")
         => stack'[g][1].pc = "read"]_vars

\* C8: a polling cycle that ends without a successful re-read (the steps of
\* the goroutine from a tick up to a failed stat, an unchanged modification
\* time or a failed read) leaves every InMemoryProvider, every channel and
\* every provider map as they were, and the goroutine stays in its loop.
C8_FailedCycleFrame ==
    /\ [][\A g \in Goroutines :
            (stack[g] # <<>> /\ Top(g).op = "refresh"
             /\ Top(g).pc \in {"wait", "stat", "read"}
             /\ stack'[g][1].pc # Top(g).pc
             /\ stack'[g][1].pc \in {"wait", "stat", "read"})
            => /\ inmems' = inmems
               /\ chans' = chans
               /\ providers' = providers
               /\ Len(stack'[g]) = 1]_vars
    /\ [][\A g \in Goroutines : stack[g] # <<>> => stack'[g] # <<>>]_vars
    /\ [](\A g \in Goroutines : At(g, "refresh", "wait") => ENABLED RefreshTick(g))

\* A cycle has failed to read a rewritten file: the provider still serves
\* the content loaded before, which is not what the file now holds.
C8_Witness ==
    \E g \in Goroutines :
        /\ At(g, "refresh", "wait")
        /\ Top(g).failed
        /\ Top(g).last = fs[Top(g).filename].mtime
        /\ inmems[Top(g).inmem].items # <<>>
        /\ inmems[Top(g).inmem].items # Unmarshal(fs[Top(g).filename].content).vals
        /\ \E ch \in DOMAIN chans : ch \in held /\ chans[ch].len = 0 /\ sends[ch] = 0
\* The bottom frame of p's stack: the call the program made.
Bottom(p) == stack[p][Len(stack[p])]

\* The InitFromEnvironment call of p has dealt with directives 1..Dealt(p).
Dealt(p) == IF Len(stack[p]) = 1 THEN Bottom(p).i ELSE Bottom(p).i - 1

\* C9: for every value of CONFIGURATION_FROM and every prior Store state,
\* InitFromEnvironment is never ended by a panic while it deals with a
\* directive that names an unregistered factory, and for every such directive
\* it has dealt with, the provider "<factoryName>:<argument>" of the Store
\* fails with "failed to instantiate provider factory".
C9_UnknownFactoryNeverAborts ==
    \A p \in Threads :
        (stack[p] # <<>> /\ Bottom(p).op = "InitFromEnvironment")
        => LET fr == Bottom(p) IN
           /\ ~(panicking[p] /\ fr.i >= 1 /\ Unregistered(fr.cfgList[fr.i]))
           /\ \A j \in 1..Dealt(p) :
                Unregistered(fr.cfgList[j])
                => LET d == Directive(fr.cfgList[j]) IN
                   Query(fr.s, ProviderName(d.name, d.arg))
                     = [items |-> <<>>, err |-> StrFailedFactory]

\* The deterministic name of the provider a loader call registers.
LoaderName(fr) ==
    IF fr.op = "file" THEN ProviderName(StrFile, fr.filename)
    ELSE IF fr.op = "FileTree" THEN ProviderName(StrFileTree, fr.dirname)
    ELSE ProviderName(StrFileList, fr.dirname)

\* C10: for every argument and every prior Store state, a File, FileTree or
\* FileList call whose source failed at construction is not ended by a
\* panic: it returns having registered, under "file:<filename>",
\* "filetree:<dirname>" or "filelist:<dirname>", a provider that fails with
\* the source's error.
C10_LoaderFailureNeverPropagates ==
    \A p \in Threads :
        (/\ stack[p] # <<>>
         /\ Top(p).op \in {"file", "FileTree", "FileList"}
         /\ Top(p).err # "nil")
        => /\ ~panicking[p]
           /\ Query(Top(p).s, LoaderName(Top(p))) = [items |-> <<>>, err |-> Top(p).err]
\* The items a query of the provider is to return: one per variable that is
\* bound and set, in the order of the environment.
RECURSIVE BoundItems(_, _, _)
BoundItems(env, bindings, priority) ==
    IF env = <<>> THEN <<>>
    ELSE (IF Head(env).name \in DOMAIN bindings
          THEN <<NewItem(bindings[Head(env).name], Head(env).value, priority)>>
          ELSE <<>>) \o BoundItems(Tail(env), bindings, priority)

ExpectedItems(e) == BoundItems(osEnv, envProvs[e].bindings, envProvs[e].priority)

\* C11: when goroutines call Items concurrently against an unchanged
\* environment and unchanged bindings, each call returns exactly one item per
\* bound variable that is set: the list a lone call would return.
C11_ConcurrentItems ==
    \A p \in Threads : At(p, "Items", "ret") => Top(p).ret = ExpectedItems(Top(p).e)

\* The keys automatic binding with prefix "A" is to give, per separator.
ExpectedKeys(keySeparator) ==
    (VarAXY :> <<"x">> \o keySeparator \o <<"y">>) @@ (VarAB :> <<"b">>)

\* C12: each query made by a lone goroutine returns exactly the items of the
\* variables that are bound and set at that time, with their current values
\* and the provider's priority, whatever the environment and the queries
\* before were; and a provider made with automatic binding for prefix "A"
\* binds exactly the variables set with that prefix, A_X_Y to the key x_y
\* (x.y with separator ".").
C12_SequentialItems ==
    /\ At(Loader, "Items", "ret") => Top(Loader).ret = ExpectedItems(Top(Loader).e)
    /\ (stack[Loader] # <<>> /\ Bottom(Loader).op = "EnvVariable" /\ Bottom(Loader).e # 0)
       => LET made == envProvs[Bottom(Loader).e]
              keys == ExpectedKeys(Bottom(Loader).opts[1].keySeparator)
          IN  /\ DOMAIN made.bindings =
                   {osEnv[i].name : i \in DOMAIN osEnv} \cap DOMAIN keys
              /\ \A v \in DOMAIN made.bindings : made.bindings[v] = keys[v]

\* A query returns an item although a bound variable was unset since the
\* query before, which had returned it.
C12_Witness ==
    /\ At(Loader, "Items", "ret")
    /\ Top(Loader).ret # <<>>
    /\ \E v \in DOMAIN envProvs[Top(Loader).e].bindings :
         \A i \in DOMAIN osEnv : osEnv[i].name # v
    /\ \E i \in DOMAIN Top(Loader).ret : Top(Loader).ret[i].value = <<"2", "=", "3">>
\* C13: Clear empties the provider map of its Store and resets the override
\* flag, and leaves the watcher list, the channels with their pending signals
\* and the registry of provider factories as they were.
C13_ClearFrame ==
    [][\A p \in Threads :
         BodyStep(p, "Clear")
         => /\ providers'[Top(p).s] = EmptyMap
            /\ ~allowProviderOverride'[Top(p).s]
            /\ watchers' = watchers
            /\ chans' = chans
            /\ providerFactories' = providerFactories]_vars
\* C14: every step of a loader called on a Store other than the default one
\* (File, FileTree, FileList, InitFromEnvironment) leaves the provider map of
\* the default Store as it was: what the call registers, it registers in the
\* map of its own Store.
C14_LoadersUseOwnStore ==
    [][\A p \in Threads :
         (/\ stack[p] # <<>>
          /\ Bottom(p).op \in {"file", "FileTree", "FileList", "InitFromEnvironment"}
          /\ Bottom(p).s # DefaultStore)
         => /\ providers'[DefaultStore] = providers[DefaultStore]
            /\ \A s \in Stores \ {Bottom(p).s} : providers'[s] = providers[s]]_vars
\* The bottom frame of p's stack after the step.
BottomNext(p) == stack'[p][Len(stack'[p])]

\* C15: FileTree is all-or-nothing.  A call that met an error (a nested
\* directory too deep, an entry or directory that cannot be read) and
\* returned has registered under "filetree:<dirname>" a provider that fails
\* with that error and carries no item; no step of such a call changes any
\* InMemoryProvider, and a call that makes an InMemoryProvider has traversed
\* the whole tree without error.
C15_FileTreeAllOrNothing ==
    /\ [](\A p \in Threads :
            (At(p, "FileTree", "ret") /\ Top(p).err # "nil")
            => Query(Top(p).s, ProviderName(StrFileTree, Top(p).dirname))
                 = [items |-> <<>>, err |-> Top(p).err])
    /\ [](\A p \in Threads :
            (stack[p] # <<>> /\ Bottom(p).op = "FileTree" /\ Bottom(p).inmem # 0)
            => Bottom(p).err = "nil")
    /\ [][\A p \in Threads :
            (/\ stack[p] # <<>> /\ Bottom(p).op = "FileTree"
             /\ stack'[p] # <<>> /\ BottomNext(p).err # "nil")
            => inmems' = inmems]_vars

\* FileTree has returned from a tree whose top-level file and nested file
\* were read before the directory nested too deep was met.
C15_Witness ==
    /\ At(Loader, "FileTree", "ret")
    /\ Top(Loader).dirname = <<"n">>
    /\ Top(Loader).err = "nested"
    /\ ReadFile(<<"n", "/", "A">>).err = "nil"
    /\ ReadFile(<<"n", "/", "s", "/", "a">>).err = "nil"

\* The item of the plain file at path: keyed key, with the priority its own
\* name gives it.
ItemOf(path, basename, key) ==
    NewItem(key, fs[path].content, IF IsUpper(basename[1]) THEN 10 ELSE 5)

RECURSIVE Flatten(_)
Flatten(ss) == IF ss = <<>> THEN <<>> ELSE Head(ss) \o Flatten(Tail(ss))

\* The items of a tree: one per plain file, a top-level file keyed by its
\* name, a nested file keyed by the name of its sub-directory.
TreeItems(dirname) ==
    Flatten([i \in DOMAIN fs[dirname].entries |->
               LET n == fs[dirname].entries[i]
                   sub == dirname \o <<"/">> \o n
               IN  IF fs[sub].kind = "dir"
                   THEN [j \in DOMAIN fs[sub].entries |->
                           ItemOf(sub \o <<"/">> \o fs[sub].entries[j], fs[sub].entries[j], n)]
                   ELSE <<ItemOf(sub, n, n)>>])

\* A readable tree with at most one level of nesting.
Shallow(dirname) ==
    /\ dirname \in DOMAIN fs /\ fs[dirname].kind = "dir" /\ fs[dirname].readable
    /\ \A i \in DOMAIN fs[dirname].entries :
         LET sub == dirname \o <<"/">> \o fs[dirname].entries[i] IN
         /\ fs[sub].readable
         /\ fs[sub].kind = "dir"
              => \A j \in DOMAIN fs[sub].entries :
                   LET f == fs[sub \o <<"/">> \o fs[sub].entries[j]] IN
                   f.kind = "file" /\ f.readable

\* C16: for a readable tree with at most one level of nesting FileTree meets
\* no error, and when it returns, the one InMemoryProvider it made, registered
\* under "filetree:<dirname>", holds exactly one item per plain file: keyed
\* by the file's name at top level and by the sub-directory's name below,
\* with priority 10 when the file's own name starts upper-case and 5 otherwise.
C16_FileTreeItems ==
    \A p \in Threads :
        (stack[p] # <<>> /\ Top(p).op = "FileTree" /\ Top(p).pc # "start"
         /\ Shallow(Top(p).dirname))
        => /\ Top(p).err = "nil"
           /\ At(p, "FileTree", "ret")
              => /\ inmems[Top(p).inmem].items = TreeItems(Top(p).dirname)
                 /\ \E s \in Stores :
                      /\ Top(p).providername \in DOMAIN providers[s]
                      /\ providers[s][Top(p).providername] = InMemItems(Top(p).inmem)

\* FileTree has returned from directory d: files A and a at top level, and
\* sub-directory s with files B and b.
C16_Witness ==
    /\ At(Loader, "FileTree", "ret")
    /\ Top(Loader).dirname = <<"d">>
    /\ inmems[Top(Loader).inmem].items =
         << NewItem(<<"A">>, "v1", 10), NewItem(<<"a">>, "v2", 5),
            NewItem(<<"s">>, "v1", 10), NewItem(<<"s">>, "v2", 5) >>
\* What each value of CONFIGURATION_FROM asks for: the factory names and
\* arguments, in order.
ExpectedDirectives ==
    (<<>> :> <<>>)
    @@ (<<"x", ":", "a">> :> <<[name |-> <<"x">>, arg |-> <<"a">>]>>)
    @@ (<<"x", ":", "a", ",", " ", "x", ":", "a">> :>
          <<[name |-> <<"x">>, arg |-> <<"a">>], [name |-> <<"x">>, arg |-> <<"a">>]>>)
    @@ (<<"x", ",", "f", "i", "l", "e", ":", "b">> :>
          <<[name |-> <<"x">>, arg |-> <<>>], [name |-> StrFile, arg |-> <<"b">>]>>)
    @@ (<<"y", ":", "a", ",", "f", "i", "l", "e", "t", "r", "e", "e", ":", "d">> :>
          <<[name |-> <<"y">>, arg |-> <<"a">>], [name |-> StrFileTree, arg |-> <<"d">>]>>)
    @@ (<<"f", "i", "l", "e", ":", " ", "m", ":", "x", " ">> :>
          <<[name |-> StrFile, arg |-> <<"m", ":", "x">>]>>)
    @@ (<<"x", ":", "a", ",", "x", ":", "a", ",", "f", "i", "l", "e", ":", "b">> :>
          <<[name |-> <<"x">>, arg |-> <<"a">>], [name |-> <<"x">>, arg |-> <<"a">>],
            [name |-> StrFile, arg |-> <<"b">>]>>)

\* The frame fr is the call directive d asks for: the built-in factory of
\* that name on d.arg, or, for a name no factory has, no factory at all.
Dispatches(fr, d) ==
    IF d.name = StrFile THEN fr.op = "file" /\ fr.filename = d.arg /\ ~fr.refresh
    ELSE IF d.name = StrFileList THEN fr.op = "FileList" /\ fr.dirname = d.arg
    ELSE IF d.name = StrFileTree THEN fr.op = "FileTree" /\ fr.dirname = d.arg
    ELSE fr.op = "RegisterProvider"

\* A step of p in InitFromEnvironment's own frame treats the variable as
\* asked: unset or empty, straight to the return; otherwise iteration i
\* calls what directive i + 1 asks for, once, and the loop ends after the
\* last directive.
DirectiveDispatch(p) ==
    /\ (At(p, "InitFromEnvironment", "getenv") /\ stack'[p] # stack[p])
       => /\ stack'[p][1].pc = (IF environ = <<>> THEN "ret" ELSE "loop")
          /\ Len(stack'[p][1].cfgList) = Len(ExpectedDirectives[environ])
    /\ (At(p, "InitFromEnvironment", "loop") /\ stack'[p] # stack[p])
       => LET want == ExpectedDirectives[environ]
              i == Top(p).i
          IN  IF i >= Len(want)
              THEN stack'[p] = Goto(p, "ret")[p]
              ELSE /\ Len(stack'[p]) = Len(stack[p]) + 1
                   /\ Dispatches(stack'[p][1], want[i + 1])
                   /\ stack'[p][2] = [Top(p) EXCEPT !.i = i + 1]
    /\ (stack[p] # <<>> /\ Bottom(p).op = "InitFromEnvironment" /\ environ = <<>>)
       => providers' = providers /\ inmems' = inmems

\* A call of InitFromEnvironment ends only when every directive has been
\* called for.
AllDirectivesDone(p) ==
    (stack[p] # <<>> /\ Bottom(p).op = "InitFromEnvironment" /\ stack'[p] = <<>>)
    => Bottom(p).i = Len(ExpectedDirectives[environ])

\* Each directive, taken alone, is split, trimmed and dispatched as asked.
DirectivesParsed == [][\A p \in Threads : DirectiveDispatch(p)]_vars

\* C17: InitFromEnvironment does nothing when CONFIGURATION_FROM is unset or
\* empty; otherwise it goes through the comma-separated directives in order,
\* each split on its first colon only, both parts trimmed, a directive
\* without colon being a name with an empty argument, and calls the factory
\* registered under the name once with the argument, for every directive.
C17_DirectivesInOrder ==
    [][\A p \in Threads : DirectiveDispatch(p) /\ AllDirectivesDone(p)]_vars
\* p holds a lock of a Store, the factory lock, or an InMemoryProvider's.
Holds(p) ==
    \/ \E s \in Stores : pMut[s] = p \/ watchersMut[s] = p
    \/ pFactMut = p
    \/ \E k \in DOMAIN inmems : inmems[k].mut = p

\* p's next step lists a directory, stats a file or reads one.
AtIO(p) ==
    \/ At(p, "file", "read")
    \/ At(p, "FileTree", "start") /\ Top(p).dirname # <<>>
    \/ At(p, "FileList", "start") /\ Top(p).dirname # <<>>
    \/ At(p, "refresh", "stat")
    \/ At(p, "refresh", "read")

\* p is inside a factory that InitFromEnvironment called.
InFactory(p) ==
    \E k \in 2..Len(stack[p]) :
        /\ stack[p][k].op = "InitFromEnvironment"
        /\ stack[p][k - 1].op \in {"file", "FileList", "FileTree"}

\* C18: a thread that runs a provider factory or is about to list a
\* directory, stat or read a file holds no lock of a Store (provider map,
\* factory map, watcher list) and no InMemoryProvider lock; and no
\* RegisterProviderFactory waits for the factory lock while its holder runs
\* a factory.
C18_NoLockAcrossIO ==
    /\ \A p \in Procs : (AtIO(p) \/ InFactory(p)) => ~Holds(p)
    /\ \A a, b \in Threads :
         ~(At(b, "RegisterProviderFactory", "lock") /\ pFactMut = a /\ InFactory(a))
\* g is in the NotifyWatchers call of its refresh loop.
Notifying(g) ==
    /\ Len(stack[g]) = 2
    /\ stack[g][1].op = "NotifyWatchers"
    /\ stack[g][2].op = "refresh"

\* C19: the refresh loop replaces the item list before it notifies.  From
\* the swap to the end of the NotifyWatchers call the provider holds what
\* this cycle read, so a consumer woken by one of its signals reads that
\* content or a later cycle's; once the loop runs, the list changes by the
\* swap only; the step after a swap is the NotifyWatchers call on the
\* loader's Store, and a tick is taken only from the head of the loop.
C19_SwapBeforeNotify ==
    /\ [](\A g \in Goroutines :
            (Notifying(g) \/ At(g, "refresh", "notify"))
            => inmems[Bottom(g).inmem].items = Bottom(g).vals)
    /\ [][\A g \in Goroutines :
            /\ (/\ stack[g] # <<>> /\ Bottom(g).op = "refresh"
                /\ inmems'[Bottom(g).inmem].items # inmems[Bottom(g).inmem].items)
               => /\ At(g, "refresh", "swap")
                  /\ stack'[g] = Goto(g, "notify")[g]
                  /\ inmems'[Top(g).inmem].items = Top(g).vals
            /\ (At(g, "refresh", "swap") /\ stack'[g][1].pc # "swap")
               => stack'[g][1].pc = "notify"
            /\ (At(g, "refresh", "notify") /\ stack'[g][1].pc # "notify")
               => /\ Len(stack'[g]) = 2
                  /\ stack'[g][1].op = "NotifyWatchers"
                  /\ stack'[g][1].s = Top(g).s
            /\ (/\ stack[g] # <<>> /\ stack'[g] # <<>>
                /\ BottomNext(g).pc = "stat" /\ Bottom(g).pc # "stat")
               => At(g, "refresh", "wait")]_vars

\* The loop has read the rewritten file, replaced the list and sent a
\* signal that a consumer has yet to read.
C19_Witness ==
    \E g \in Goroutines :
        /\ Notifying(g)
        /\ stack[g][1].pc = "ret"
        /\ \E ch \in held : chans[ch].len = 1 /\ sends[ch] >= 1
        /\ inmems[stack[g][2].inmem].items = Unmarshal("v2").vals
\* p's next step writes the bindings map of provider e.
WritesBindings(p, e) == At(p, "BindEnv", "body") /\ Top(p).e = e

\* p's next step reads the bindings map of provider e.
ReadsBindings(p, e) ==
    At(p, "Items", "loop") /\ Top(p).e = e /\ Top(p).i < Len(Top(p).environ)

\* C20: the bindings map of an EnvVariableProvider is only accessed under the
\* provider's lock: in no state is one goroutine about to write the map
\* while another is about to read or write it.
C20_BindingsUnderLock ==
    \A e \in DOMAIN envProvs : \A a, b \in Threads :
        (a # b /\ WritesBindings(a, e)) => ~(ReadsBindings(b, e) \/ WritesBindings(b, e))
\* The holder of the mutex p's next step locks, NoProc when that mutex is
\* free or p's next step locks nothing.
Blocker(p) ==
    IF stack[p] = <<>> \/ Top(p).pc \notin {"lock", "lockFact"} THEN NoProc
    ELSE IF Top(p).op \in {"RegisterProvider", "AllowProviderOverride"} THEN pMut[Top(p).s]
    ELSE IF Top(p).op = "Clear"
    THEN (IF Top(p).pc = "lock" THEN pMut[Top(p).s] ELSE pFactMut)
    ELSE IF Top(p).op = "RegisterProviderFactory"
    THEN (IF build = BuildPerStore THEN pMut[DefaultStore] ELSE pFactMut)
    ELSE IF Top(p).op = "InitFromEnvironment" THEN pFactMut
    ELSE IF Top(p).op \in {"Watch", "NotifyWatchers"} THEN watchersMut[Top(p).s]
    ELSE NoProc

\* Some threads wait for mutexes that only threads among them can release.
Deadlocked ==
    \E D \in SUBSET Threads : D # {} /\ \A p \in D : Blocker(p) \in D

\* C21: the Store is deadlock-free.  Whatever the interleaving of
\* RegisterProvider, AllowProviderOverride, Clear, RegisterProviderFactory,
\* InitFromEnvironment, Watch and NotifyWatchers, and also when a factory run
\* by InitFromEnvironment calls RegisterProvider or RegisterProviderFactory,
\* no thread waits for a mutex that will never be released: no thread waits
\* for a mutex it holds itself, and no threads wait for one another.
C21_DeadlockFree == ~Deadlocked
\* What the source of the provider registered under name holds: the items
\* of the watched file, or those of the tree.
Loaded(name) ==
    IF name = ProviderName(StrFile, WatchedFile)
    THEN <<NewItem("k", fs[WatchedFile].content, 0)>>
    ELSE TreeItems(LoadedTree)

\* C22: a provider registered by File or FileTree is never seen half-built:
\* from the moment its name is in the provider map, a query made by another
\* thread while the loader runs returns every item loaded from the file or
\* the tree, never an empty or partial list.
C22_NeverHalfBuilt ==
    \A p \in Threads :
        At(p, "InMemoryProvider.Items", "ret") => Top(p).got = Loaded(Top(p).name)

====
